---- MODULE Spec2Model ----
(***************************************************************************)
(* PicGate: the tiered image store (local disk + R2 archive), its cleanup  *)
(* passes, the payload rewriter and the streaming chat adapter.            *)
(*                                                                         *)
(* Handlers run on one asyncio event loop.  A handler is one action; the   *)
(* upload pass is cut at each awaited upload, after it committed the row   *)
(* as "uploading".                                                         *)
(***************************************************************************)
EXTENDS Integers, Sequences, FiniteSets, TLC

\* ------------------------------------------------------------------ bounds
MaxImages == 2
MaxBytes == 2
MaxTicks == 2
MaxHeartbeats == 2
MaxSlots == 2
MaxParts == 3
\* Each byte of a modelled image stands for a block of this many bytes of the
\* file, so that a few images fill a cache of one megabyte.
BlockBytes == 131072
\* the most that failed writes leave behind in IMAGES_DIR: two blocks
MaxStrayBytes == 262144

\* ------------------------------------------------------- program constants
DefaultTTLHours == 72
DefaultRetentionDays == 365
HoursPerDay == 24
UploadLimit == 50
BytesPerMB == 1048576
UuidLen == 36
MaxRetries == 3
SniffLen == 100
SlashChar == 63
SleepSeconds == 3

VARIABLES
    images,      \* image_id -> Image row (exists = FALSE: no row)
    disk,        \* image_id -> extension -> file under IMAGES_DIR
    stray_bytes, \* bytes of files under IMAGES_DIR that belong to no row
    r2,          \* image_id -> object openwebui/{image_id}.png of the bucket
    settings,    \* the Settings row
    now,         \* datetime.utcnow(), in hours
    nticks,      \* clock advances so far
    next_id,     \* the next uuid4 to be drawn
    bg_quota,    \* scheduled _check_cache_size_limit tasks
    bg_upload,   \* scheduled _auto_upload_to_r2 tasks (image ids)
    ppu,         \* the running process_pending_uploads call
    saved,       \* history: image_id -> the text saved and the bytes written
    evicted,     \* history: ids whose local file was removed at least once
    ttl_evicted, \* history: ids whose local copy cleanup_expired_local removed
    last,        \* history: the last call and what it returned
    mode,        \* the generator _handle_streaming_chat chose
    gen_pc,      \* where the stream generator is suspended
    frames,      \* the SSE frames the generator has yielded, in order
    fetch,       \* fetch_task of generate_interactive_stream
    elapsed_seconds, \* elapsed_seconds of the heartbeat loop
    pt,          \* generate_passthrough_stream: attempt, lines forwarded in it
    rw,          \* the last PayloadRewriter.rewrite call and its outcome
    call,        \* the running non-streaming gateway request
    sweep        \* the running cleanup_expired_local call

store_vars == <<images, disk, stray_bytes, r2, settings, now, nticks, next_id,
                bg_quota, bg_upload, ppu, saved, evicted, ttl_evicted, last>>

stream_vars == <<mode, gen_pc, frames, fetch, elapsed_seconds, pt>>

chat_vars == <<stream_vars, rw, call, sweep>>

vars == <<store_vars, chat_vars>>

\* ------------------------------------------------------------- base64 text
\* A text is a sequence of characters; a character is its index in the base64
\* alphabet (A-Z 0..25, a-z 26..51, 0-9 52..61, + 62, / 63), 64 for '=',
\* 65 for ':', 66 for ';', 67 for ','.
PadChar == 64
ColonChar == 65
SemiChar == 66
CommaChar == 67

\* "data:"
DataScheme == <<29, 26, 45, 26, ColonChar>>
\* "data:image/png;base64,"
DataPrefix == DataScheme \o <<34, 38, 26, 32, 30, 63, 41, 39, 32, SemiChar,
                              27, 26, 44, 30, 58, 56, CommaChar>>

ByteValues == {0, 255}

RECURSIVE SeqsUpTo(_, _)
SeqsUpTo(S, n) ==
    IF n = 0 THEN {<<>>}
    ELSE LET shorter == SeqsUpTo(S, n - 1)
         IN  shorter \cup {Append(s, x) : s \in shorter, x \in S}

ByteStrings == SeqsUpTo(ByteValues, MaxBytes)

\* base64.b64encode
RECURSIVE B64Encode(_)
B64Encode(b) ==
    IF Len(b) = 0 THEN <<>>
    ELSE IF Len(b) = 1 THEN
        <<b[1] \div 4, (b[1] % 4) * 16, PadChar, PadChar>>
    ELSE IF Len(b) = 2 THEN
        <<b[1] \div 4, (b[1] % 4) * 16 + (b[2] \div 16), (b[2] % 16) * 4, PadChar>>
    ELSE
        <<b[1] \div 4, (b[1] % 4) * 16 + (b[2] \div 16),
          (b[2] % 16) * 4 + (b[3] \div 64), b[3] % 64>>
        \o B64Encode(SubSeq(b, 4, Len(b)))

\* binascii.a2b_base64, strict_mode off: characters outside the alphabet are
\* skipped, a complete pad run ends the parse, a dangling quad is an error.
RECURSIVE A2B(_, _, _, _, _, _)
A2B(s, i, quad_pos, left, pads, out) ==
    IF i > Len(s) THEN
        [ok |-> quad_pos = 0, bytes |-> IF quad_pos = 0 THEN out ELSE <<>>]
    ELSE IF s[i] = PadChar THEN
        IF quad_pos >= 2 /\ quad_pos + pads + 1 >= 4
        THEN [ok |-> TRUE, bytes |-> out]
        ELSE A2B(s, i + 1, quad_pos, left, pads + 1, out)
    ELSE IF s[i] > PadChar THEN
        A2B(s, i + 1, quad_pos, left, pads, out)
    ELSE IF quad_pos = 0 THEN
        A2B(s, i + 1, 1, s[i], 0, out)
    ELSE IF quad_pos = 1 THEN
        A2B(s, i + 1, 2, s[i] % 16, 0, Append(out, left * 4 + (s[i] \div 16)))
    ELSE IF quad_pos = 2 THEN
        A2B(s, i + 1, 3, s[i] % 4, 0, Append(out, left * 16 + (s[i] \div 4)))
    ELSE
        A2B(s, i + 1, 0, 0, 0, Append(out, left * 64 + s[i]))

\* a decoder that drops a final group that is padded
B64DecodeWholeQuads(s) ==
    LET body == SelectSeq(s, LAMBDA c : c < PadChar)
    IN  A2B(SubSeq(body, 1, Len(body) - (Len(body) % 4)), 1, 0, 0, 0, <<>>)

\* base64.b64decode
B64Decode(s) == A2B(s, 1, 0, 0, 0, <<>>)

StartsWith(s, p) == Len(s) >= Len(p) /\ SubSeq(s, 1, Len(p)) = p

HasChar(s, c) == \E i \in 1..Len(s) : s[i] = c

FirstIndex(s, c) == CHOOSE i \in 1..Len(s) : s[i] = c /\ \A j \in 1..(i - 1) : s[j] # c

\* base64_data.split(",", 1)[1]: the text after the first comma
AfterFirstComma(s) == SubSeq(s, FirstIndex(s, CommaChar) + 1, Len(s))

\* save_from_base64, the prefix handling: a missing comma is an IndexError
StripDataPrefix(s) ==
    IF StartsWith(s, DataScheme)
    THEN IF HasChar(s, CommaChar)
         THEN [ok |-> TRUE, text |-> AfterFirstComma(s)]
         ELSE [ok |-> FALSE, text |-> <<>>]
    ELSE [ok |-> TRUE, text |-> s]

\* save_from_base64, the try block: the decoded bytes or the ValueError
DecodeImage(base64_data) ==
    LET body == StripDataPrefix(base64_data)
    IN  IF body.ok THEN B64Decode(body.text) ELSE [ok |-> FALSE, bytes |-> <<>>]


\* ------------------------------------------------------------ image store
\* the uuid4 values a run can draw
ImageIds == DOMAIN images

\* What a caller passes as image_id: a drawn uuid4 (36 characters, 4 hyphens,
\* key k) or a string that is no UUID.
UuidHyphens == 4
RequestIds ==
    {[len |-> UuidLen, hyphens |-> UuidHyphens, key |-> k] : k \in ImageIds}
    \cup {[len |-> 3, hyphens |-> 0, key |-> 1]}

ContentTypes == {"image/png", "image/jpeg"}
Exts == {".png", ".jpg", ".gif", ".webp"}

\* ImageStore._get_extension
GetExtension(content_type) ==
    CASE content_type = "image/png" -> ".png"
      [] content_type = "image/jpeg" -> ".jpg"
      [] content_type = "image/jpg" -> ".jpg"
      [] content_type = "image/gif" -> ".gif"
      [] content_type = "image/webp" -> ".webp"
      [] OTHER -> ".png"

NoFile == [present |-> FALSE, data |-> <<>>]
File(bytes) == [present |-> TRUE, data |-> bytes]

NoImage ==
    [exists |-> FALSE, local_path |-> "", content_type |-> "", size_bytes |-> 0,
     has_local_copy |-> FALSE, has_r2_copy |-> FALSE, upload_status |-> "",
     upload_error |-> "", created_at |-> 0, last_accessed_at |-> 0]

\* len(image_bytes), st_size
SizeOf(bytes) == Len(bytes) * BlockBytes

\* a row that is created as already archived
NewImageArchived(ext, content_type, bytes, t) ==
    [exists |-> TRUE, local_path |-> ext, content_type |-> content_type,
     size_bytes |-> SizeOf(bytes), has_local_copy |-> TRUE, has_r2_copy |-> TRUE,
     upload_status |-> "uploaded", upload_error |-> "", created_at |-> t,
     last_accessed_at |-> t]

\* models.Image as save_from_base64 fills it
NewImage(ext, content_type, bytes, t) ==
    [exists |-> TRUE, local_path |-> ext, content_type |-> content_type,
     size_bytes |-> SizeOf(bytes), has_local_copy |-> TRUE, has_r2_copy |-> FALSE,
     upload_status |-> "pending", upload_error |-> "", created_at |-> t,
     last_accessed_at |-> t]

\* models.Settings, the columns the store reads
SettingsChoices ==
    [r2_configured : BOOLEAN,
     local_cache_ttl_hours : {0, 1},
     metadata_retention_days : {0},
     max_local_cache_mb : {0, 1},
     delete_r2_on_metadata_expire : BOOLEAN]

\* create_r2_client: None unless all four R2 settings are filled
CreateR2Client(s) == s.r2_configured

Result(op, key, ok, data, src) ==
    [op |-> op, id |-> key, ok |-> ok, data |-> data, src |-> src]

\* a call whose return value no property reads
Other == Result("other", 0, TRUE, <<>>, "")

\* the hours the clock may jump between two calls
TickHours == {1, DefaultTTLHours, DefaultRetentionDays * HoursPerDay}

\* the texts handed to save_from_base64: encodings with and without the data
\* URL prefix, a dangling quad, and a data URL without a comma
SaveInputs ==
    {B64Encode(b) : b \in ByteStrings}
    \cup {DataPrefix \o B64Encode(b) : b \in ByteStrings}
    \cup {<<19>>, DataScheme}

FileExists(dsk, id, ext) == ext \in Exts /\ dsk[id][ext].present

RECURSIVE SumOver(_, _)
SumOver(S, f) ==
    IF S = {} THEN 0
    ELSE LET x == CHOOSE y \in S : TRUE IN f[x] + SumOver(S \ {x}, f)

FileSize(dsk, id, ext) == IF dsk[id][ext].present THEN SizeOf(dsk[id][ext].data) ELSE 0

\* _check_cache_size_limit: the bytes of every file under IMAGES_DIR
DirBytes(dsk, stray) ==
    LET perImage == [id \in ImageIds |->
                        SumOver(Exts, [e \in Exts |-> FileSize(dsk, id, e)])]
    IN  stray + SumOver(ImageIds, perImage)

\* ids in the order of a query: ascending by key(id), then by row
RECURSIVE SortBy(_, _)
SortBy(S, key) ==
    IF S = {} THEN <<>>
    ELSE LET m == CHOOSE x \in S :
                    \A y \in S : key[x] < key[y] \/ (key[x] = key[y] /\ x <= y)
         IN  <<m>> \o SortBy(S \ {m}, key)

RowOrder(S) == SortBy(S, [i \in ImageIds |-> i])

Take(s, n) == SubSeq(s, 1, IF Len(s) < n THEN Len(s) ELSE n)

\* init_db on an empty data directory: no rows, no files, an empty bucket;
\* the Settings row is whatever the administrator saved
InitStore(ids, choices, strays) ==
    /\ images = [i \in ids |-> NoImage]
    /\ disk = [i \in ids |-> [e \in Exts |-> NoFile]]
    /\ stray_bytes \in strays
    /\ r2 = [i \in ids |-> NoFile]
    /\ settings \in choices
    /\ now = 0
    /\ nticks = 0
    /\ next_id = 1
    /\ bg_quota = 0
    /\ bg_upload = {}
    /\ ppu = [pc |-> "idle", queue |-> <<>>, cur |-> 0, bytes |-> <<>>]
    /\ saved = [i \in ids |-> [text |-> <<>>, bytes |-> <<>>]]
    /\ evicted = {}
    /\ ttl_evicted = {}
    /\ last = Other

\* datetime.utcnow() moves on between calls
Tick(dt) ==
    /\ nticks < MaxTicks
    /\ now' = now + dt
    /\ nticks' = nticks + 1
    /\ UNCHANGED <<images, disk, stray_bytes, r2, settings, next_id, bg_quota,
                   bg_upload, ppu, saved, evicted, ttl_evicted, last>>
    /\ UNCHANGED chat_vars

\* ImageStore.save_from_base64, as the store sees it
SaveImage(base64_data, content_type) ==
    /\ next_id \in ImageIds
    /\ LET dec == DecodeImage(base64_data)
           id == next_id
           ext == GetExtension(content_type)
       IN  IF ~dec.ok
           THEN /\ last' = Result("save_from_base64", 0, FALSE, <<>>, "ValueError")
                /\ UNCHANGED <<images, disk, next_id, bg_quota, bg_upload, saved>>
           ELSE /\ disk' = [disk EXCEPT ![id][ext] = File(dec.bytes)]
                /\ images' = [images EXCEPT ![id] =
                                 NewImage(ext, content_type, dec.bytes, now)]
                /\ next_id' = next_id + 1
                /\ bg_upload' = bg_upload \cup {[id |-> id, ext |-> ext]}
                /\ bg_quota' = bg_quota + 1
                /\ saved' = [saved EXCEPT ![id] = [text |-> base64_data,
                                                   bytes |-> dec.bytes]]
                /\ last' = Result("save_from_base64", id, TRUE, <<>>, "")
    /\ UNCHANGED <<stray_bytes, r2, settings, now, nticks, ppu, evicted, ttl_evicted>>

\* ImageStore.save_from_base64 called outside a gateway request
SaveFromBase64(base64_data, content_type) ==
    /\ SaveImage(base64_data, content_type)
    /\ UNCHANGED chat_vars

\* ImageStore.save_from_base64 when file_path.write_bytes raises OSError (disk
\* full, directory not writable): the exception leaves the method before the
\* row is built; what was written of the file, a whole block at most here,
\* stays under a name no row carries
SaveWriteFails(base64_data, content_type) ==
    /\ next_id \in ImageIds
    /\ DecodeImage(base64_data).ok
    /\ \E left \in {0, BlockBytes} :
          /\ stray_bytes + left <= MaxStrayBytes
          /\ stray_bytes' = stray_bytes + left
    /\ last' = Result("save_from_base64", 0, FALSE, <<>>, "OSError")
    /\ UNCHANGED <<images, disk, r2, settings, now, nticks, next_id, bg_quota,
                   bg_upload, ppu, saved, evicted, ttl_evicted>>
    /\ UNCHANGED chat_vars

\* ImageStore._auto_upload_to_r2: what the task runs into.  R2Client defines
\* upload_image, download_image, delete_image and check_exists; the call
\* r2_client.upload(...) raises AttributeError, which the task's except logs.
AutoUploadOutcome(s, dsk, id, ext) ==
    IF ~CreateR2Client(s) THEN "not_configured"
    ELSE IF ~FileExists(dsk, id, ext) THEN "no_file"
    ELSE "AttributeError"

AutoUploadToR2(task) ==
    /\ task \in bg_upload
    /\ bg_upload' = bg_upload \ {task}
    /\ AutoUploadOutcome(settings, disk, task.id, task.ext)
           \in {"not_configured", "no_file", "AttributeError"}
    /\ last' = Other
    /\ UNCHANGED <<images, disk, stray_bytes, r2, settings, now, nticks, next_id,
                   bg_quota, ppu, saved, evicted, ttl_evicted>>
    /\ UNCHANGED chat_vars

\* _check_cache_size_limit, the loop over the rows with a local copy, oldest
\* first.  current_mb <= target_mb (90% of max_mb) is compared in bytes.
TargetReachedAtLimit(bytes, max_mb) == bytes <= max_mb * BytesPerMB

\* current_mb <= target_mb, with target_mb = max_mb * 0.9
TargetReached(bytes, max_mb) == bytes * 10 <= max_mb * 9 * BytesPerMB

RECURSIVE QuotaLoop(_, _, _, _)
QuotaLoop(order, max_mb, st, k) ==
    IF k > Len(order) \/ TargetReached(st.bytes, max_mb) THEN st
    ELSE LET id == order[k]
             ext == st.images[id].local_path
         IN  IF ext = "" THEN QuotaLoop(order, max_mb, st, k + 1)
             ELSE IF FileExists(st.disk, id, ext)
             THEN QuotaLoop(order, max_mb,
                     [images |-> [st.images EXCEPT ![id].has_local_copy = FALSE],
                      disk |-> [st.disk EXCEPT ![id][ext] = NoFile],
                      bytes |-> st.bytes - FileSize(st.disk, id, ext),
                      deleted |-> st.deleted \cup {id}],
                     k + 1)
             ELSE QuotaLoop(order, max_mb,
                     [st EXCEPT !.images = [st.images EXCEPT ![id].has_local_copy = FALSE]],
                     k + 1)

\* _check_cache_size_limit: what the pass leaves; the flags it cleared are
\* committed only when it deleted a file
QuotaPass(s, imgs, dsk, stray) ==
    LET max_mb == s.max_local_cache_mb
        current == DirBytes(dsk, stray)
        unchanged == [images |-> imgs, disk |-> dsk, bytes |-> current, deleted |-> {}]
    IN  IF max_mb <= 0 THEN unchanged
        ELSE IF current <= max_mb * BytesPerMB THEN unchanged
        ELSE LET local == {i \in ImageIds : imgs[i].exists /\ imgs[i].has_local_copy}
                 created == [i \in ImageIds |-> imgs[i].created_at]
                 st == QuotaLoop(SortBy(local, created), max_mb, unchanged, 1)
             IN  IF st.deleted # {} THEN st ELSE unchanged

CheckCacheSizeLimit ==
    /\ bg_quota > 0
    /\ LET st == QuotaPass(settings, images, disk, stray_bytes)
       IN  /\ images' = st.images
           /\ disk' = st.disk
           /\ evicted' = evicted \cup st.deleted
           /\ last' = Other
    /\ bg_quota' = bg_quota - 1
    /\ UNCHANGED <<stray_bytes, r2, settings, now, nticks, next_id, bg_upload,
                   ppu, saved, ttl_evicted>>
    /\ UNCHANGED chat_vars

\* A local file is gone while its row still says has_local_copy: the state
\* every "file missing" branch of the store handles (a file removed by hand,
\* or by a pass whose commit is still awaited).
LocalFileLost(id) ==
    /\ images[id].exists /\ images[id].has_local_copy
    /\ FileExists(disk, id, images[id].local_path)
    /\ disk' = [disk EXCEPT ![id][images[id].local_path] = NoFile]
    /\ evicted' = evicted \cup {id}
    /\ last' = Other
    /\ UNCHANGED <<images, stray_bytes, r2, settings, now, nticks, next_id,
                   bg_quota, bg_upload, ppu, saved, ttl_evicted>>
    /\ UNCHANGED chat_vars

\* ImageStore.get_local_path: the path found, and the rows after its commit
GetLocalPath(imgs, dsk, id) ==
    IF ~imgs[id].exists THEN [found |-> FALSE, images |-> imgs]
    ELSE IF imgs[id].has_local_copy /\ imgs[id].local_path # ""
    THEN IF FileExists(dsk, id, imgs[id].local_path)
         THEN [found |-> TRUE, images |-> imgs]
         ELSE [found |-> FALSE, images |-> [imgs EXCEPT ![id].has_local_copy = FALSE]]
    ELSE [found |-> FALSE, images |-> imgs]

\* R2Client.download_image: (bytes, None), or (None, error) when the object
\* is missing or the transfer fails
DownloadImage(bucket, id, transfer_ok) ==
    IF transfer_ok /\ bucket[id].present
    THEN [bytes |-> bucket[id].data, none |-> FALSE]
    ELSE [bytes |-> <<>>, none |-> TRUE]

\* Python truth of Optional[bytes]: None and b"" are both false
Truthy(dl) == ~dl.none /\ Len(dl.bytes) > 0

NotFound(imgs, dsk, src) ==
    [ok |-> FALSE, data |-> <<>>, src |-> src, images |-> imgs, disk |-> dsk]

\* ImageStore.get_base64: the value returned (ok = FALSE: None), where it came
\* from, and the rows and files it leaves
GetBase64Call(s, imgs, dsk, bucket, req, transfer_ok) ==
    IF req.len # UuidLen \/ req.hyphens # UuidHyphens
    THEN NotFound(imgs, dsk, "invalid")
    ELSE LET id == req.key
             lp == GetLocalPath(imgs, dsk, id)
             image == lp.images[id]
         IN  IF lp.found
             THEN [ok |-> TRUE, data |-> B64Encode(dsk[id][image.local_path].data),
                   src |-> "local", images |-> lp.images, disk |-> dsk]
             ELSE IF image.exists /\ image.has_r2_copy
             THEN IF ~CreateR2Client(s) THEN NotFound(lp.images, dsk, "no_client")
                  ELSE LET dl == DownloadImage(bucket, id, transfer_ok)
                           ext == GetExtension(IF image.content_type = ""
                                               THEN "image/png" ELSE image.content_type)
                       IN  IF Truthy(dl)
                           THEN [ok |-> TRUE, data |-> B64Encode(dl.bytes), src |-> "r2",
                                 images |-> [lp.images EXCEPT ![id].has_local_copy = TRUE,
                                                              ![id].local_path = ext],
                                 disk |-> [dsk EXCEPT ![id][ext] = File(dl.bytes)]]
                           ELSE NotFound(lp.images, dsk, "download_failed")
             ELSE NotFound(lp.images, dsk, "none")

GetBase64(req, transfer_ok) ==
    /\ LET res == GetBase64Call(settings, images, disk, r2, req, transfer_ok)
       IN  /\ images' = res.images
           /\ disk' = res.disk
           /\ last' = Result("get_base64", IF res.src = "invalid" THEN 0 ELSE req.key,
                             res.ok, res.data, res.src)
    /\ UNCHANGED <<stray_bytes, r2, settings, now, nticks, next_id, bg_quota,
                   bg_upload, ppu, saved, evicted, ttl_evicted>>
    /\ UNCHANGED chat_vars


\* cleanup.download_from_r2: the bytes returned (ok = FALSE: None) and the
\* rows and files it leaves
DownloadFromR2(s, imgs, dsk, bucket, id, transfer_ok, t) ==
    LET none == [ok |-> FALSE, bytes |-> <<>>, images |-> imgs, disk |-> dsk]
        dl == DownloadImage(bucket, id, transfer_ok)
    IN  IF ~CreateR2Client(s) THEN none
        ELSE IF ~imgs[id].exists THEN none
        ELSE IF ~imgs[id].has_r2_copy THEN none
        ELSE IF ~Truthy(dl) THEN none
        ELSE [ok |-> TRUE, bytes |-> dl.bytes,
              images |-> [imgs EXCEPT ![id].has_local_copy = TRUE,
                                      ![id].local_path = ".png",
                                      ![id].last_accessed_at = t],
              disk |-> [dsk EXCEPT ![id][".png"] = File(dl.bytes)]]

\* images.get_image: the response (ok: 200 with the file's bytes; else the
\* status in src) and the rows and files it leaves
GetImageCall(s, imgs, dsk, bucket, id, transfer_ok, t) ==
    IF ~imgs[id].exists
    THEN [ok |-> FALSE, data |-> <<>>, src |-> "404", images |-> imgs, disk |-> dsk]
    ELSE LET touched == [imgs EXCEPT ![id].last_accessed_at = t]
             image == touched[id]
             hit == image.has_local_copy /\ image.local_path # ""
                    /\ FileExists(dsk, id, image.local_path)
             cleared == IF image.has_local_copy /\ image.local_path # ""
                        THEN [touched EXCEPT ![id].has_local_copy = FALSE]
                        ELSE touched
         IN  IF hit
             THEN [ok |-> TRUE, data |-> dsk[id][image.local_path].data, src |-> "local",
                   images |-> touched, disk |-> dsk]
             ELSE IF image.has_r2_copy
             THEN LET dl == DownloadFromR2(s, cleared, dsk, bucket, id, transfer_ok, t)
                  IN  IF dl.ok
                      THEN [ok |-> TRUE, data |-> dl.disk[id][".png"].data, src |-> "r2",
                            images |-> dl.images, disk |-> dl.disk]
                      ELSE [ok |-> FALSE, data |-> <<>>, src |-> "503",
                            images |-> dl.images, disk |-> dl.disk]
             ELSE [ok |-> FALSE, data |-> <<>>, src |-> "404",
                   images |-> cleared, disk |-> dsk]

GetImage(id, transfer_ok) ==
    /\ LET res == GetImageCall(settings, images, disk, r2, id, transfer_ok, now)
       IN  /\ images' = res.images
           /\ disk' = res.disk
           /\ last' = Result("get_image", id, res.ok, res.data, res.src)
    /\ UNCHANGED <<stray_bytes, r2, settings, now, nticks, next_id, bg_quota,
                   bg_upload, ppu, saved, evicted, ttl_evicted>>
    /\ UNCHANGED chat_vars

TtlHoursNoDefault(s) == s.local_cache_ttl_hours

\* settings.local_cache_ttl_hours or 72
TtlHours(s) ==
    IF s.local_cache_ttl_hours = 0 THEN DefaultTTLHours ELSE s.local_cache_ttl_hours

\* settings.metadata_retention_days or 365, in hours
RetentionHours(s) ==
    (IF s.metadata_retention_days = 0 THEN DefaultRetentionDays
     ELSE s.metadata_retention_days) * HoursPerDay

\* cleanup_expired_local, the query: has_local_copy and last_accessed_at < cutoff
ExpiredLocal(s, imgs, t) ==
    {i \in ImageIds : /\ imgs[i].exists
                      /\ imgs[i].has_local_copy
                      /\ imgs[i].last_accessed_at < t - TtlHours(s)}

\* a sweep that also stamps the rows it evicts
CleanupLocalPassTouching(s, imgs, dsk, t) ==
    LET expired == ExpiredLocal(s, imgs, t)
    IN  [images |-> [i \in ImageIds |->
                        IF i \in expired
                        THEN [imgs[i] EXCEPT !.has_local_copy = FALSE,
                                             !.last_accessed_at = t]
                        ELSE imgs[i]],
         disk |-> [i \in ImageIds |->
                      IF i \in expired /\ imgs[i].local_path # ""
                      THEN [dsk[i] EXCEPT ![imgs[i].local_path] = NoFile]
                      ELSE dsk[i]],
         selected |-> expired]

\* cleanup_expired_local: unlink each selected row's file if it is there,
\* clear has_local_copy, commit
CleanupLocalPass(s, imgs, dsk, t) ==
    LET expired == ExpiredLocal(s, imgs, t)
    IN  [images |-> [i \in ImageIds |->
                        IF i \in expired THEN [imgs[i] EXCEPT !.has_local_copy = FALSE]
                        ELSE imgs[i]],
         disk |-> [i \in ImageIds |->
                      IF i \in expired /\ imgs[i].local_path # ""
                      THEN [dsk[i] EXCEPT ![imgs[i].local_path] = NoFile]
                      ELSE dsk[i]],
         selected |-> expired]

\* a query that leaves out Image.has_local_copy == False
ExpiredMetadataAnyCopy(s, imgs, t) ==
    {i \in ImageIds : imgs[i].exists /\ imgs[i].created_at < t - RetentionHours(s)}

\* cleanup_expired_metadata, the query: no local copy and created_at < cutoff
ExpiredMetadata(s, imgs, t) ==
    {i \in ImageIds : /\ imgs[i].exists
                      /\ ~imgs[i].has_local_copy
                      /\ imgs[i].created_at < t - RetentionHours(s)}

\* cleanup_expired_metadata: delete the R2 object when asked to (the delete
\* may fail), then delete the row either way
CleanupMetadataPass(s, imgs, bucket, t, delete_ok) ==
    LET old == ExpiredMetadata(s, imgs, t)
        r2_client == s.delete_r2_on_metadata_expire /\ CreateR2Client(s)
    IN  [images |-> [i \in ImageIds |-> IF i \in old THEN NoImage ELSE imgs[i]],
         r2 |-> [i \in ImageIds |->
                    IF /\ i \in old
                       /\ s.delete_r2_on_metadata_expire
                       /\ imgs[i].has_r2_copy
                       /\ r2_client
                       /\ delete_ok
                    THEN NoFile ELSE bucket[i]],
         selected |-> old]

CleanupExpiredLocal ==
    /\ LET pass == CleanupLocalPass(settings, images, disk, now)
       IN  /\ images' = pass.images
           /\ disk' = pass.disk
           /\ evicted' = evicted \cup pass.selected
           /\ ttl_evicted' = ttl_evicted \cup pass.selected
    /\ last' = Result("cleanup_expired_local", 0, TRUE, <<>>, "")
    /\ UNCHANGED <<stray_bytes, r2, settings, now, nticks, next_id, bg_quota,
                   bg_upload, ppu, saved>>
    /\ UNCHANGED chat_vars

\* no cleanup_expired_local call is between its query and its commit
NoSweep == [pc |-> "idle", rows |-> {}]

\* cleanup_expired_local up to the return of await db.execute(select ...):
\* the rows of the result are the objects the loop will work on
CleanupLocalQuery ==
    /\ sweep.pc = "idle"
    /\ sweep' = [pc |-> "selected",
                 rows |-> {[id |-> i, local_path |-> images[i].local_path] :
                              i \in ExpiredLocal(settings, images, now)}]
    /\ UNCHANGED <<store_vars, stream_vars, rw, call>>

\* cleanup_expired_local from the loop to the return: each selected object's
\* file is unlinked if it is there, under the local_path the query read;
\* has_local_copy = False is committed for each
CleanupLocalSweep ==
    /\ sweep.pc = "selected"
    /\ LET ids == {row.id : row \in sweep.rows}
       IN  /\ images' = [i \in ImageIds |->
                            IF i \in ids /\ images[i].exists
                            THEN [images[i] EXCEPT !.has_local_copy = FALSE]
                            ELSE images[i]]
           /\ disk' = [i \in ImageIds |-> [e \in Exts |->
                            IF [id |-> i, local_path |-> e] \in sweep.rows
                            THEN NoFile ELSE disk[i][e]]]
           /\ evicted' = evicted \cup ids
           /\ ttl_evicted' = ttl_evicted \cup ids
    /\ sweep' = NoSweep
    /\ last' = Result("cleanup_expired_local", 0, TRUE, <<>>, "")
    /\ UNCHANGED <<stray_bytes, r2, settings, now, nticks, next_id, bg_quota,
                   bg_upload, ppu, saved>>
    /\ UNCHANGED <<stream_vars, rw, call>>

CleanupExpiredMetadata(delete_ok) ==
    /\ LET pass == CleanupMetadataPass(settings, images, r2, now, delete_ok)
       IN  /\ images' = pass.images
           /\ r2' = pass.r2
           /\ last' = Result("cleanup_expired_metadata", 0, TRUE, <<>>,
                             IF pass.selected = {} THEN "none" ELSE "deleted")
    /\ UNCHANGED <<disk, stray_bytes, settings, now, nticks, next_id, bg_quota,
                   bg_upload, ppu, saved, evicted, ttl_evicted>>
    /\ UNCHANGED chat_vars

\* admin_api.trigger_cleanup: cleanup_expired_local, then cleanup_expired_metadata
TriggerCleanup(delete_ok) ==
    /\ LET local == CleanupLocalPass(settings, images, disk, now)
           meta == CleanupMetadataPass(settings, local.images, r2, now, delete_ok)
       IN  /\ images' = meta.images
           /\ disk' = local.disk
           /\ r2' = meta.r2
           /\ evicted' = evicted \cup local.selected
           /\ ttl_evicted' = ttl_evicted \cup local.selected
    /\ last' = Result("trigger_cleanup", 0, TRUE, <<>>, "")
    /\ UNCHANGED <<stray_bytes, settings, now, nticks, next_id, bg_quota,
                   bg_upload, ppu, saved>>
    /\ UNCHANGED chat_vars


\* admin_api.delete_image: 404 for an unknown id; else the local file is
\* unlinked if the row has one, and the row is deleted
DeleteImage(id) ==
    /\ IF ~images[id].exists
       THEN /\ last' = Result("delete_image", id, FALSE, <<>>, "404")
            /\ UNCHANGED <<images, disk, evicted>>
       ELSE /\ images' = [images EXCEPT ![id] = NoImage]
            /\ disk' = IF images[id].has_local_copy /\ images[id].local_path # ""
                       THEN [disk EXCEPT ![id][images[id].local_path] = NoFile]
                       ELSE disk
            /\ evicted' = IF disk' # disk THEN evicted \cup {id} ELSE evicted
            /\ last' = Result("delete_image", id, TRUE, <<>>, "")
    /\ UNCHANGED <<stray_bytes, r2, settings, now, nticks, next_id, bg_quota,
                   bg_upload, ppu, saved, ttl_evicted>>
    /\ UNCHANGED chat_vars

DeleteTypes == {"local", "r2", "all"}

\* admin_api.batch_delete_images, one row: "local" and "all" unlink the file
\* and clear has_local_copy; "r2" and "all" call r2_client.delete, which
\* R2Client does not define (the AttributeError is caught, has_r2_copy and
\* the object stay); "all" deletes the row
BatchDeleteRow(row, delete_type) ==
    IF ~row.exists THEN row
    ELSE IF delete_type = "all" THEN NoImage
    ELSE IF delete_type = "local" /\ row.has_local_copy /\ row.local_path # ""
    THEN [row EXCEPT !.has_local_copy = FALSE]
    ELSE row

BatchDeleteImages(image_ids, delete_type) ==
    /\ LET unlinked == {i \in image_ids : /\ images[i].exists
                                          /\ delete_type \in {"local", "all"}
                                          /\ images[i].has_local_copy
                                          /\ images[i].local_path # ""}
       IN  /\ images' = [i \in ImageIds |->
                            IF i \in image_ids
                            THEN BatchDeleteRow(images[i], delete_type)
                            ELSE images[i]]
           /\ disk' = [i \in ImageIds |->
                          IF i \in unlinked
                          THEN [disk[i] EXCEPT ![images[i].local_path] = NoFile]
                          ELSE disk[i]]
           /\ evicted' = evicted \cup {i \in unlinked : disk'[i] # disk[i]}
    /\ last' = Result("batch_delete_images", 0, TRUE, <<>>, delete_type)
    /\ UNCHANGED <<stray_bytes, r2, settings, now, nticks, next_id, bg_quota,
                   bg_upload, ppu, saved, ttl_evicted>>
    /\ UNCHANGED chat_vars

PpuIdle == [pc |-> "idle", queue |-> <<>>, cur |-> 0, bytes |-> <<>>]

\* a query that leaves out Image.has_local_copy == True
PendingQueryAnyCopy(imgs) ==
    LET ids == Take(RowOrder({i \in ImageIds : /\ imgs[i].exists
                                               /\ imgs[i].upload_status = "pending"}),
                    UploadLimit)
    IN  [k \in 1..Len(ids) |-> [id |-> ids[k], local_path |-> imgs[ids[k]].local_path]]

\* process_pending_uploads, the query: pending rows with a local copy, up to
\* the limit, each as the session loaded it
PendingQuery(imgs) ==
    LET ids == Take(RowOrder({i \in ImageIds : /\ imgs[i].exists
                                               /\ imgs[i].upload_status = "pending"
                                               /\ imgs[i].has_local_copy}),
                    UploadLimit)
    IN  [k \in 1..Len(ids) |-> [id |-> ids[k], local_path |-> imgs[ids[k]].local_path]]

\* a write to a row that is still there
SetRow(imgs, id, row) == IF imgs[id].exists THEN [imgs EXCEPT ![id] = row] ELSE imgs

\* process_pending_uploads, the loop from one await to the next: rows without
\* a path are skipped, a row whose file is missing is failed at once, the
\* first row whose file is there is committed "uploading" and its upload is
\* awaited; past the last row the call commits and returns
RECURSIVE PpuRun(_, _, _)
PpuRun(imgs, dsk, queue) ==
    IF queue = <<>> THEN [images |-> imgs, ppu |-> PpuIdle]
    ELSE LET entry == Head(queue)
             id == entry.id
         IN  IF entry.local_path = "" THEN PpuRun(imgs, dsk, Tail(queue))
             ELSE IF ~FileExists(dsk, id, entry.local_path)
             THEN PpuRun(SetRow(imgs, id,
                                [imgs[id] EXCEPT !.has_local_copy = FALSE,
                                                 !.upload_status = "failed",
                                                 !.upload_error = "Local file not found"]),
                         dsk, Tail(queue))
             ELSE [images |-> SetRow(imgs, id,
                                     [imgs[id] EXCEPT !.upload_status = "uploading"]),
                   ppu |-> [pc |-> "uploading", queue |-> Tail(queue), cur |-> id,
                            bytes |-> dsk[id][entry.local_path].data]]

\* process_pending_uploads up to its first awaited upload, called by a
\* handler or by retry_failed_uploads after its commit
ProcessPendingUploads ==
    /\ ppu.pc \in {"idle", "retry"}
    /\ LET run == PpuRun(images, disk, PendingQuery(images))
       IN  IF ~CreateR2Client(settings)
           THEN images' = images /\ ppu' = PpuIdle
           ELSE images' = run.images /\ ppu' = run.ppu
    /\ last' = Other
    /\ UNCHANGED <<disk, stray_bytes, r2, settings, now, nticks, next_id,
                   bg_quota, bg_upload, saved, evicted, ttl_evicted>>
    /\ UNCHANGED chat_vars

\* R2Client.upload_image returned: the row loaded by the query gets the result
PpuSettle(imgs, id, success) ==
    IF success
    THEN SetRow(imgs, id, [imgs[id] EXCEPT !.has_r2_copy = TRUE,
                                           !.upload_status = "uploaded",
                                           !.upload_error = ""])
    ELSE SetRow(imgs, id, [imgs[id] EXCEPT !.upload_status = "failed",
                                           !.upload_error = "upload failed"])

\* process_pending_uploads, from the return of an upload to the next await
PpuUploadDone(success) ==
    /\ ppu.pc = "uploading"
    /\ LET run == PpuRun(PpuSettle(images, ppu.cur, success), disk, ppu.queue)
       IN  /\ images' = run.images
           /\ ppu' = run.ppu
    /\ r2' = IF success THEN [r2 EXCEPT ![ppu.cur] = File(ppu.bytes)] ELSE r2
    /\ last' = Other
    /\ UNCHANGED <<disk, stray_bytes, settings, now, nticks, next_id, bg_quota,
                   bg_upload, saved, evicted, ttl_evicted>>
    /\ UNCHANGED chat_vars

\* retry_failed_uploads up to its commit: failed rows with a local copy go
\* back to pending; process_pending_uploads is called next when any row was
\* reset
RetryFailedUploads ==
    /\ ppu.pc = "idle"
    /\ LET failed == {i \in ImageIds : /\ images[i].exists
                                      /\ images[i].upload_status = "failed"
                                      /\ images[i].has_local_copy}
       IN  /\ images' = [i \in ImageIds |->
                            IF i \in failed
                            THEN [images[i] EXCEPT !.upload_status = "pending",
                                                   !.upload_error = ""]
                            ELSE images[i]]
           /\ ppu' = IF failed # {} THEN [ppu EXCEPT !.pc = "retry"] ELSE ppu
    /\ last' = Other
    /\ UNCHANGED <<disk, stray_bytes, r2, settings, now, nticks, next_id, bg_quota,
                   bg_upload, saved, evicted, ttl_evicted>>
    /\ UNCHANGED chat_vars

\* ---------------------------------------------------------- streaming chat
\* The frames a stream carries: the gateway's welcome, heartbeat, error,
\* process and final chunks, a chunk with a finish_reason ("finish"), the
\* marker data: [DONE] ("done"), and an upstream content delta ("content").

\* what an OpenAI-compatible upstream streams for one completion
UpstreamLines == <<"content", "finish", "done">>

NoFetch == [pc |-> "none", attempt |-> 0, success |-> FALSE]

\* make_chunk: the delta and the finish_reason of a chunk
make_chunk(content, finish_reason, include_role) ==
    [content |-> IF finish_reason = "null" THEN content ELSE "",
     role |-> IF include_role /\ finish_reason = "null" THEN "assistant" ELSE "absent",
     finish_reason |-> finish_reason]

\* the chunk generate_interactive_stream builds for each of its frames
InteractiveChunk(frame) ==
    CASE frame = "welcome" -> make_chunk(frame, "null", TRUE)
      [] frame = "finish" -> make_chunk("", "stop", FALSE)
      [] OTHER -> make_chunk(frame, "null", FALSE)

\* no streaming request is in progress
StreamIdle ==
    /\ mode = "none"
    /\ gen_pc = "closed"
    /\ frames = <<>>
    /\ fetch = NoFetch
    /\ elapsed_seconds = 0
    /\ pt = [attempt |-> 0, pos |-> 0]

\* _handle_streaming_chat returned the StreamingResponse of one generator
InitStreaming ==
    /\ mode \in {"interactive", "passthrough"}
    /\ gen_pc = "start"
    /\ frames = <<>>
    /\ fetch = NoFetch
    /\ elapsed_seconds = 0
    /\ pt = [attempt |-> 0, pos |-> 0]

\* fetch_task.done(): fetch_upstream returned, or an exception left it
FetchDone == fetch.pc \in {"done", "raised"}

HeartbeatAlways(task_done) == TRUE

\* the heartbeat loop after its sleep: if not fetch_task.done()
HeartbeatDue(task_done) == ~task_done

\* generate_interactive_stream: the welcome chunk
IStart ==
    /\ mode = "interactive" /\ gen_pc = "start"
    /\ frames' = Append(frames, "welcome")
    /\ gen_pc' = "welcome"
    /\ UNCHANGED <<mode, fetch, elapsed_seconds, pt, rw, call, sweep, store_vars>>

\* generate_interactive_stream past the heartbeat loop: await fetch_task
\* re-raises the exception that left fetch_upstream, and the generator ends
\* there; else the error chunk or the process chunk is yielded
AfterLoop ==
    IF fetch.pc = "raised"
    THEN frames' = frames /\ gen_pc' = "aborted"
    ELSE IF fetch.success
    THEN frames' = Append(frames, "process") /\ gen_pc' = "process"
    ELSE frames' = Append(frames, "error") /\ gen_pc' = "error"

\* generate_interactive_stream: fetch_task is created and the loop sleeps
IAfterWelcome ==
    /\ mode = "interactive" /\ gen_pc = "welcome"
    /\ fetch' = [pc |-> "calling", attempt |-> 1, success |-> FALSE]
    /\ gen_pc' = "sleeping"
    /\ UNCHANGED <<mode, frames, elapsed_seconds, pt, rw, call, sweep, store_vars>>

\* generate_interactive_stream: asyncio.sleep(3) returns; the task is checked
\* again and the heartbeat chunk is yielded in the same turn
IWake ==
    /\ mode = "interactive" /\ gen_pc = "sleeping"
    /\ FetchDone \/ elapsed_seconds < SleepSeconds * MaxHeartbeats
    /\ elapsed_seconds' = elapsed_seconds + SleepSeconds
    /\ IF HeartbeatDue(FetchDone)
       THEN frames' = Append(frames, "heartbeat") /\ gen_pc' = "heartbeat"
       ELSE AfterLoop
    /\ UNCHANGED <<mode, fetch, pt, rw, call, sweep, store_vars>>

\* generate_interactive_stream resumed after a heartbeat: the loop condition
IAfterHeartbeat ==
    /\ mode = "interactive" /\ gen_pc = "heartbeat"
    /\ IF FetchDone THEN AfterLoop
       ELSE frames' = frames /\ gen_pc' = "sleeping"
    /\ UNCHANGED <<mode, fetch, elapsed_seconds, pt, rw, call, sweep, store_vars>>

\* generate_interactive_stream: _process_chat_response returned or raised;
\* every branch yields one chunk
IAfterProcess ==
    /\ mode = "interactive" /\ gen_pc = "process"
    /\ frames' = Append(frames, "final")
    /\ gen_pc' = "final"
    /\ UNCHANGED <<mode, fetch, elapsed_seconds, pt, rw, call, sweep, store_vars>>

\* a generator that may close the answer right after the success notice
YieldFinishEarly ==
    /\ gen_pc \in {"final", "error", "process"}
    /\ frames' = Append(frames, "finish")
    /\ gen_pc' = "finish"
    /\ UNCHANGED <<mode, fetch, elapsed_seconds, pt, rw, call, sweep, store_vars>>

\* either generator: make_chunk("", finish_reason="stop") after the last
\* content chunk
YieldFinish ==
    /\ gen_pc \in {"final", "error"}
    /\ frames' = Append(frames, "finish")
    /\ gen_pc' = "finish"
    /\ UNCHANGED <<mode, fetch, elapsed_seconds, pt, rw, call, sweep, store_vars>>

\* either generator: data: [DONE]
YieldDone ==
    /\ gen_pc = "finish"
    /\ frames' = Append(frames, "done")
    /\ gen_pc' = "done"
    /\ UNCHANGED <<mode, fetch, elapsed_seconds, pt, rw, call, sweep, store_vars>>

\* either generator returns after its [DONE]
Return ==
    /\ gen_pc = "done"
    /\ gen_pc' = "closed"
    /\ UNCHANGED <<mode, frames, fetch, elapsed_seconds, pt, rw, call, sweep, store_vars>>

\* fetch_upstream: client.chat_completions returned or raised
FetchReturn(ok) ==
    /\ fetch.pc = "calling"
    /\ fetch' = IF ok THEN [fetch EXCEPT !.pc = "done", !.success = TRUE]
                ELSE IF fetch.attempt < MaxRetries THEN [fetch EXCEPT !.pc = "backoff"]
                ELSE [fetch EXCEPT !.pc = "done", !.success = FALSE]
    /\ UNCHANGED <<mode, gen_pc, frames, elapsed_seconds, pt, rw, call, sweep, store_vars>>

\* fetch_upstream: client.chat_completions raised httpx.HTTPStatusError and
\* the JSON body of the answer carries no string at error.message (null, a
\* number): last_error_detail[:100] raises TypeError inside the except block,
\* which no other except clause of the try catches
FetchRaise ==
    /\ fetch.pc = "calling"
    /\ fetch' = [fetch EXCEPT !.pc = "raised"]
    /\ UNCHANGED <<mode, gen_pc, frames, elapsed_seconds, pt, rw, call, sweep, store_vars>>

\* fetch_upstream: asyncio.sleep(1) returns and the next attempt is sent
FetchRetry ==
    /\ fetch.pc = "backoff"
    /\ fetch' = [fetch EXCEPT !.pc = "calling", !.attempt = fetch.attempt + 1]
    /\ UNCHANGED <<mode, gen_pc, frames, elapsed_seconds, pt, rw, call, sweep, store_vars>>

\* generate_passthrough_stream: the first attempt opens the upstream stream
PStart ==
    /\ mode = "passthrough" /\ gen_pc = "start"
    /\ pt' = [attempt |-> 1, pos |-> 0]
    /\ gen_pc' = "streaming"
    /\ UNCHANGED <<mode, frames, fetch, elapsed_seconds, rw, call, sweep, store_vars>>

\* generate_passthrough_stream: a line arrives and is yielded as it is
PLine ==
    /\ mode = "passthrough" /\ gen_pc = "streaming"
    /\ pt.pos < Len(UpstreamLines)
    /\ frames' = Append(frames, UpstreamLines[pt.pos + 1])
    /\ pt' = [pt EXCEPT !.pos = pt.pos + 1]
    /\ UNCHANGED <<mode, gen_pc, fetch, elapsed_seconds, rw, call, sweep, store_vars>>

\* generate_passthrough_stream: the upstream stream ends; the generator
\* returns
PEnd ==
    /\ mode = "passthrough" /\ gen_pc = "streaming"
    /\ pt.pos = Len(UpstreamLines)
    /\ gen_pc' = "closed"
    /\ UNCHANGED <<mode, frames, fetch, elapsed_seconds, pt, rw, call, sweep, store_vars>>

\* generate_passthrough_stream: the attempt raises, on the status line or
\* while lines are read; the next attempt starts the stream over, the third
\* failure yields the error chunk
PFail ==
    /\ mode = "passthrough" /\ gen_pc = "streaming"
    /\ pt.pos < Len(UpstreamLines)
    /\ IF pt.attempt < MaxRetries
       THEN /\ pt' = [attempt |-> pt.attempt + 1, pos |-> 0]
            /\ UNCHANGED <<gen_pc, frames>>
       ELSE /\ frames' = Append(frames, "error")
            /\ gen_pc' = "error"
            /\ pt' = pt
    /\ UNCHANGED <<mode, fetch, elapsed_seconds, rw, call, sweep, store_vars>>

\* generate_passthrough_stream: the status line is an error and the JSON body
\* carries no string at error.message: the TypeError of last_error_detail[:100]
\* leaves the generator
PRaise ==
    /\ mode = "passthrough" /\ gen_pc = "streaming"
    /\ pt.pos = 0
    /\ gen_pc' = "aborted"
    /\ UNCHANGED <<mode, frames, fetch, elapsed_seconds, pt, rw, call, sweep, store_vars>>

\* ---------------------------------------------------------- payload values
\* A JSON value is [t, v]: a string (v: its parts), a list (v: its items), a
\* dict (v: its key/value pairs, in order) or null.  A string is a sequence
\* of parts [k, kind, key]: a word ("lit"), white space ("blank"), a URL
\* ("url") or a markdown image ![alt](URL) ("md").  A URL is external, a
\* gateway URL /images/{id} ("local", key = <<id>>), a data:image/ URL
\* ("data", key = the base64 text) or raw base64 ("b64", key = the text).
Part(k, kind, key) == [k |-> k, kind |-> kind, key |-> key]
JStr(parts) == [t |-> "str", v |-> parts]
JList(items) == [t |-> "list", v |-> items]
JDict(pairs) == [t |-> "dict", v |-> pairs]
JNull == [t |-> "null", v |-> <<>>]
Pair(key, val) == [key |-> key, val |-> val]
Lit(word) == JStr(<<Part("lit", word, <<>>)>>)
UrlStr(kind, key) == JStr(<<Part("url", kind, key)>>)

HasKey(d, key) == \E i \in DOMAIN d.v : d.v[i].key = key

\* dict.get(key): None when the key is missing
Get(d, key) ==
    IF HasKey(d, key) THEN d.v[CHOOSE i \in DOMAIN d.v : d.v[i].key = key].val
    ELSE JNull

\* d[key] = val on a key the dict holds
SetKey(d, key, val) ==
    JDict([i \in DOMAIN d.v |-> IF d.v[i].key = key THEN Pair(key, val) ELSE d.v[i]])

IsBlank(parts) == \A i \in DOMAIN parts : parts[i].k = "blank"

\* str.strip()
RECURSIVE Strip(_)
Strip(parts) ==
    IF parts = <<>> THEN parts
    ELSE IF Head(parts).k = "blank" THEN Strip(Tail(parts))
    ELSE IF parts[Len(parts)].k = "blank" THEN Strip(SubSeq(parts, 1, Len(parts) - 1))
    ELSE parts

\* image_store.is_base64_image
IsBase64Image(parts) ==
    IF parts = <<>> THEN FALSE
    ELSE IF parts[1].k = "url" /\ parts[1].kind = "data" THEN TRUE
    ELSE IF parts[1].k = "url" /\ parts[1].kind \in {"external", "local"} THEN FALSE
    ELSE /\ parts[1].k = "url"
         /\ parts[1].kind = "b64"
         /\ Len(parts[1].key) > SniffLen
         /\ parts[1].key[1] # SlashChar

\* image_store.extract_image_id_from_url: the id, or <<>> for None
ExtractImageId(parts) ==
    IF Len(parts) = 1 /\ parts[1].k = "url" /\ parts[1].kind = "local"
    THEN parts[1].key ELSE <<>>

\* PayloadRewriter._guess_content_type: no URL of the model names .jpg, .gif,
\* .webp or .svg
GuessContentType(parts) == "image/png"

\* f"data:{content_type};base64,{base64_data}"
DataUrl(content_type, base64_data) == <<Part("url", "data", base64_data)>>

\* what an external server returns for an image
ExternalData == B64Encode(<<0>>)

UuidRequest(id) == [len |-> UuidLen, hyphens |-> UuidHyphens, key |-> id]

Out(raised, val, ctx) == [raised |-> raised, val |-> val, ctx |-> ctx]

Fetched(raised, none, data, ctx) ==
    [raised |-> raised, none |-> none, data |-> data, ctx |-> ctx]

\* _url_cache is left as it is
CachedNowhere(ctx, url, data) == ctx

\* self._url_cache[url] = base64_data
Cached(ctx, url, data) ==
    [ctx EXCEPT !.cache = ctx.cache \cup {[url |-> url, data |-> data]}]

\* _url_to_base64 has called _load_local_image, and that
\* image_store.get_base64, for a url that names a gateway image and is not in
\* _url_cache; ok = a text came back.  The rows and files are as get_base64
\* left them.
Loaded(ctx, url, is_local, loaded, ok) ==
    [ctx EXCEPT !.images = loaded.images, !.disk = loaded.disk,
                !.loads = IF is_local
                          THEN Append(ctx.loads, [url |-> url, ok |-> ok])
                          ELSE ctx.loads]

\* PayloadRewriter._load_local_image: image_store.get_base64 on the id
LoadLocalImage(image_id, ctx, env) ==
    IF image_id # <<>> /\ image_id[1] \in DOMAIN ctx.images
    THEN GetBase64Call(env.settings, ctx.images, ctx.disk, env.bucket,
                       UuidRequest(image_id[1]), env.transfer_ok)
    ELSE NotFound(ctx.images, ctx.disk, "none")

\* _fetch_external_image without its except clauses: the httpx error leaves it
FetchExternalImageRaises(url, ctx, env) ==
    IF env.fetch_ok THEN Fetched(FALSE, FALSE, ExternalData, Cached(ctx, url, ExternalData))
    ELSE Fetched(TRUE, TRUE, <<>>, ctx)

\* PayloadRewriter._fetch_external_image: the text, or None on any failure
FetchExternalImage(url, ctx, env) ==
    IF env.fetch_ok THEN Fetched(FALSE, FALSE, ExternalData, Cached(ctx, url, ExternalData))
    ELSE Fetched(FALSE, TRUE, <<>>, ctx)

\* _url_to_base64 after the local lookup: a non-empty local text is cached
\* and returned; otherwise the security gate, then the external fetch
AfterLocalLookup(url, is_local, loaded, ctx, env) ==
    IF is_local /\ loaded.ok /\ loaded.data # <<>>
    THEN Fetched(FALSE, FALSE, loaded.data,
                 Cached(Loaded(ctx, url, is_local, loaded, TRUE), url, loaded.data))
    ELSE IF ~env.allow_external_fetch
    THEN Fetched(TRUE, TRUE, <<>>, Loaded(ctx, url, is_local, loaded, FALSE))
    ELSE FetchExternalImage(url, Loaded(ctx, url, is_local, loaded, FALSE), env)

\* _url_to_base64 on the stripped url
UrlToBase64Stripped(url, ctx, env) ==
    IF url = <<>> THEN Fetched(FALSE, TRUE, <<>>, ctx)
    ELSE IF \E c \in ctx.cache : c.url = url
    THEN Fetched(FALSE, FALSE, (CHOOSE c \in ctx.cache : c.url = url).data, ctx)
    ELSE AfterLocalLookup(url, ExtractImageId(url) # <<>>,
                          LoadLocalImage(ExtractImageId(url), ctx, env), ctx, env)

\* PayloadRewriter._url_to_base64: raised (the ValueError of the security
\* gate), or None (none), or the base64 text; ctx carries _url_cache and the
\* rows and files get_base64 leaves
UrlToBase64(url, ctx, env) == UrlToBase64Stripped(Strip(url), ctx, env)

\* if base64_data: the call returned a non-empty text
Converted(r) == ~r.raised /\ ~r.none /\ r.data # <<>>

\* _convert_image_field after _url_to_base64: the ValueError is not caught
ImageFieldResult(value, r) ==
    IF r.raised THEN Out(TRUE, JNull, r.ctx)
    ELSE IF Converted(r) THEN Out(FALSE, UrlStr("b64", r.data), r.ctx)
    ELSE Out(FALSE, value, r.ctx)

\* PayloadRewriter._convert_image_field
ConvertImageField(value, ctx, env) ==
    IF value.t # "str" THEN Out(FALSE, value, ctx)
    ELSE IF IsBase64Image(value.v) THEN Out(FALSE, value, ctx)
    ELSE ImageFieldResult(value, UrlToBase64(value.v, ctx, env))

MdUrl(part) == <<Part("url", part.kind, part.key)>>

TextItem(parts) == JDict(<<Pair("type", Lit("text")), Pair("text", JStr(parts))>>)

ImageUrlItem(url) ==
    JDict(<<Pair("type", Lit("image_url")),
            Pair("image_url", JDict(<<Pair("url", JStr(url))>>))>>)

\* text_before: appended as a text part when it is not blank
WithTextBefore(parts, text) ==
    IF text # <<>> /\ ~IsBlank(text) THEN Append(parts, TextItem(text)) ELSE parts

\* one markdown match of _convert_string_to_structured_content after
\* _url_to_base64: the image part, or (None, or any exception caught) the
\* match kept as text
StructuredMatch(before, match, url, r) ==
    IF Converted(r)
    THEN [parts |-> Append(before, ImageUrlItem(DataUrl(GuessContentType(url), r.data))),
          text |-> <<>>, ctx |-> r.ctx]
    ELSE [parts |-> Append(before, TextItem(<<match>>)), text |-> <<>>, ctx |-> r.ctx]

\* one markdown match of _convert_string_to_structured_content
StructureMatch(before, match, url, ctx, env) ==
    IF IsBase64Image(url)
    THEN [parts |-> Append(before, ImageUrlItem(url)), text |-> <<>>, ctx |-> ctx]
    ELSE IF url = <<>> THEN [parts |-> before, text |-> <<>>, ctx |-> ctx]
    ELSE StructuredMatch(before, match, url, UrlToBase64(url, ctx, env))

\* _convert_string_to_structured_content, the loop over the matches and the
\* text between them: st = [parts, text, ctx]
RECURSIVE StructureParts(_, _, _, _)
StructureParts(content, i, st, env) ==
    IF i > Len(content)
    THEN [st EXCEPT !.parts = WithTextBefore(st.parts, st.text), !.text = <<>>]
    ELSE IF content[i].k # "md"
    THEN StructureParts(content, i + 1, [st EXCEPT !.text = Append(st.text, content[i])], env)
    ELSE StructureParts(content, i + 1,
            StructureMatch(WithTextBefore(st.parts, st.text), content[i],
                           Strip(MdUrl(content[i])), st.ctx, env), env)

\* _convert_string_to_structured_content: a lone text part goes back as a
\* string
StructuredResult(st) ==
    IF Len(st.parts) = 1 /\ Get(st.parts[1], "type") = Lit("text")
    THEN Out(FALSE, Get(st.parts[1], "text"), st.ctx)
    ELSE Out(FALSE, JList(st.parts), st.ctx)

\* PayloadRewriter._convert_string_to_structured_content
ConvertStringToStructuredContent(content, ctx, env) ==
    IF content = <<>> \/ IsBlank(content) THEN Out(FALSE, JStr(content), ctx)
    ELSE IF \A i \in DOMAIN content : content[i].k # "md"
    THEN Out(FALSE, JStr(content), ctx)
    ELSE StructuredResult(StructureParts(content, 1,
                            [parts |-> <<>>, text |-> <<>>, ctx |-> ctx], env))

\* one markdown match of _rewrite_string_content after _url_to_base64; an
\* exception is caught and the match is kept
RewrittenMatch(result, i, r) ==
    IF Converted(r)
    THEN [parts |-> [result EXCEPT ![i] = Part("md", "data", r.data)], ctx |-> r.ctx]
    ELSE [parts |-> result, ctx |-> r.ctx]

\* one markdown match of _rewrite_string_content
RewriteMatch(result, i, url, ctx, env) ==
    IF url = <<>> \/ IsBase64Image(url) THEN [parts |-> result, ctx |-> ctx]
    ELSE RewrittenMatch(result, i, UrlToBase64(url, ctx, env))

\* _rewrite_string_content, the markdown matches from the last to the first;
\* the model's texts hold no <img> tag
RECURSIVE RewriteMatches(_, _, _)
RewriteMatches(i, st, env) ==
    IF i = 0 THEN st
    ELSE IF st.parts[i].k # "md" THEN RewriteMatches(i - 1, st, env)
    ELSE RewriteMatches(i - 1,
            RewriteMatch(st.parts, i, Strip(MdUrl(st.parts[i])), st.ctx, env), env)

\* PayloadRewriter._rewrite_string_content
RewriteStringContent(content, ctx, env) ==
    IF content = <<>> \/ IsBlank(content) THEN [parts |-> content, ctx |-> ctx]
    ELSE RewriteMatches(Len(content), [parts |-> content, ctx |-> ctx], env)

\* ------------------------------------------------------- payload rewriter
\* the URL of an image_url / input_image item: the string itself, the "url"
\* of the dict, "" otherwise
ItemUrl(obj) ==
    IF obj.t = "str" THEN obj.v
    ELSE IF obj.t = "dict" /\ Get(obj, "url").t = "str" THEN Get(obj, "url").v
    ELSE <<>>

\* new_item[key]["url"] = data URL, or new_item[key] = {"url": data URL}
WithItemUrl(item, key, url) ==
    IF Get(item, key).t = "dict"
    THEN IF HasKey(Get(item, key), "url")
         THEN SetKey(item, key, SetKey(Get(item, key), "url", JStr(url)))
         ELSE SetKey(item, key, JDict(Append(Get(item, key).v, Pair("url", JStr(url)))))
    ELSE IF HasKey(item, key)
    THEN SetKey(item, key, JDict(<<Pair("url", JStr(url))>>))
    ELSE JDict(Append(item.v, Pair(key, JDict(<<Pair("url", JStr(url))>>))))

\* an image_url / input_image item after _url_to_base64: the try/except
\* keeps the item when the security gate raises
UrlItemResult(item, key, url, r) ==
    IF Converted(r)
    THEN Out(FALSE, WithItemUrl(item, key, DataUrl(GuessContentType(url), r.data)), r.ctx)
    ELSE Out(FALSE, item, r.ctx)

\* the image_url and input_image branches of _rewrite_content_array
RewriteUrlItem(item, key, url, ctx, env) ==
    IF url = <<>> \/ IsBase64Image(url) THEN Out(FALSE, item, ctx)
    ELSE UrlItemResult(item, key, url, UrlToBase64(url, ctx, env))

\* an image item after _url_to_base64, inside its try/except
ImageItemResult(item, r) ==
    IF Converted(r) THEN Out(FALSE, SetKey(item, "image", UrlStr("b64", r.data)), r.ctx)
    ELSE Out(FALSE, item, r.ctx)

\* the image branch of _rewrite_content_array
RewriteImageItem(item, image_data, ctx, env) ==
    IF image_data.t # "str" \/ image_data.v = <<>> \/ IsBase64Image(image_data.v)
    THEN Out(FALSE, item, ctx)
    ELSE ImageItemResult(item, UrlToBase64(image_data.v, ctx, env))

\* a text item after _rewrite_string_content
TextItemResult(item, text, r) ==
    IF r.parts # text.v THEN Out(FALSE, SetKey(item, "text", JStr(r.parts)), r.ctx)
    ELSE Out(FALSE, item, r.ctx)

\* the text branch of _rewrite_content_array
RewriteTextItem(item, text, ctx, env) ==
    IF text.t # "str" \/ text.v = <<>> THEN Out(FALSE, item, ctx)
    ELSE TextItemResult(item, text, RewriteStringContent(text.v, ctx, env))

\* a plain string in a content array
StringItemResult(r) == Out(FALSE, JStr(r.parts), r.ctx)

RECURSIVE RewriteValue(_, _, _)
RECURSIVE RewritePairs(_, _, _, _, _)
RECURSIVE RewriteItems(_, _, _, _, _)
RECURSIVE RewriteContentItems(_, _, _, _, _)

\* _rewrite_content_array on one item that is not None
RewriteContentItem(item, ctx, env) ==
    IF item.t = "str" THEN StringItemResult(RewriteStringContent(item.v, ctx, env))
    ELSE IF item.t # "dict" THEN Out(FALSE, item, ctx)
    ELSE IF Get(item, "type") = Lit("image_url")
    THEN RewriteUrlItem(item, "image_url", ItemUrl(Get(item, "image_url")), ctx, env)
    ELSE IF Get(item, "type") = Lit("input_image")
    THEN RewriteUrlItem(item, "input_image", ItemUrl(Get(item, "input_image")), ctx, env)
    ELSE IF Get(item, "type") = Lit("image")
    THEN RewriteImageItem(item, Get(item, "image"), ctx, env)
    ELSE IF Get(item, "type") = Lit("text")
    THEN RewriteTextItem(item, Get(item, "text"), ctx, env)
    ELSE RewriteValue(item, ctx, env)

\* result.append(...) and the next item, unless the item raised
ContentItemsNext(content, i, result, one, env) ==
    IF one.raised THEN one
    ELSE RewriteContentItems(content, i + 1, Append(result, one.val), one.ctx, env)

\* PayloadRewriter._rewrite_content_array, from item i on
RewriteContentItems(content, i, result, ctx, env) ==
    IF i > Len(content) THEN Out(FALSE, JList(result), ctx)
    ELSE IF content[i].t = "null"
    THEN RewriteContentItems(content, i + 1, result, ctx, env)
    ELSE ContentItemsNext(content, i, result, RewriteContentItem(content[i], ctx, env), env)

RewriteContentArray(content, ctx, env) == RewriteContentItems(content, 1, <<>>, ctx, env)

\* PayloadRewriter._rewrite_json_string: the model's strings are no JSON
\* text, json.loads raises JSONDecodeError and the string comes back as is
RewriteJsonString(json_str, ctx, env) == Out(FALSE, json_str, ctx)

ItemsNext(lst, i, result, one, env) ==
    IF one.raised THEN one
    ELSE RewriteItems(lst, i + 1, Append(result, one.val), one.ctx, env)

\* PayloadRewriter._rewrite_list, from item i on
RewriteItems(lst, i, result, ctx, env) ==
    IF i > Len(lst) THEN Out(FALSE, JList(result), ctx)
    ELSE ItemsNext(lst, i, result, RewriteValue(lst[i], ctx, env), env)

RewriteList(lst, ctx, env) == RewriteItems(lst, 1, <<>>, ctx, env)

\* _rewrite_dict on one key and its value
RewritePair(key, value, ctx, env) ==
    IF key \in {"image", "init_image", "mask"} THEN ConvertImageField(value, ctx, env)
    ELSE IF key = "content"
    THEN IF value.t = "null" THEN Out(FALSE, value, ctx)
         ELSE IF value.t = "list" THEN RewriteContentArray(value.v, ctx, env)
         ELSE IF value.t = "str" THEN ConvertStringToStructuredContent(value.v, ctx, env)
         ELSE Out(FALSE, value, ctx)
    ELSE IF key = "arguments" /\ value.t = "str" THEN RewriteJsonString(value, ctx, env)
    ELSE IF key = "tool_calls" /\ value.t = "list" THEN RewriteList(value.v, ctx, env)
    ELSE RewriteValue(value, ctx, env)

\* result[key] = ... and the next key, unless the value raised
PairsNext(d, i, result, one, env) ==
    IF one.raised THEN one
    ELSE RewritePairs(d, i + 1, Append(result, Pair(d[i].key, one.val)), one.ctx, env)

\* PayloadRewriter._rewrite_dict, from pair i on
RewritePairs(d, i, result, ctx, env) ==
    IF i > Len(d) THEN Out(FALSE, JDict(result), ctx)
    ELSE PairsNext(d, i, result, RewritePair(d[i].key, d[i].val, ctx, env), env)

RewriteDict(d, ctx, env) == RewritePairs(d, 1, <<>>, ctx, env)

\* PayloadRewriter._rewrite_value
RewriteValue(value, ctx, env) ==
    IF value.t = "dict" THEN RewriteDict(value.v, ctx, env)
    ELSE IF value.t = "list" THEN RewriteList(value.v, ctx, env)
    ELSE Out(FALSE, value, ctx)

\* ------------------------------------------------------------ request bodies
\* a request body is built from slots [pos, url]: where an image reference
\* sits and which URL it is
FieldKeys == {"image", "init_image", "mask"}
ItemPositions == {"image_url", "image_url_str", "input_image", "image_item",
                  "text_item", "content"}
Positions == FieldKeys \cup ItemPositions
Urls == {[kind |-> "external", key |-> <<>>],
         [kind |-> "local", key |-> <<1>>],
         [kind |-> "data", key |-> B64Encode(<<255>>)]}
Slots == [pos : Positions, url : Urls]

UserMessage(content) == JDict(<<Pair("role", Lit("user")), Pair("content", content)>>)

Caption == TextItem(<<Part("lit", "look", <<>>)>>)

Markdown(url) ==
    <<Part("lit", "see", <<>>), Part("blank", "", <<>>), Part("md", url.kind, url.key)>>

\* the chat message holding the image reference of a slot
Message(slot) ==
    LET u == UrlStr(slot.url.kind, slot.url.key)
    IN  CASE slot.pos = "image_url" ->
                UserMessage(JList(<<Caption, ImageUrlItem(u.v)>>))
          [] slot.pos = "image_url_str" ->
                UserMessage(JList(<<JDict(<<Pair("type", Lit("image_url")),
                                            Pair("image_url", u)>>)>>))
          [] slot.pos = "input_image" ->
                UserMessage(JList(<<JDict(<<Pair("type", Lit("input_image")),
                                            Pair("input_image",
                                                 JDict(<<Pair("url", u)>>))>>)>>))
          [] slot.pos = "image_item" ->
                UserMessage(JList(<<JDict(<<Pair("type", Lit("image")),
                                            Pair("image", u)>>)>>))
          [] slot.pos = "text_item" ->
                UserMessage(JList(<<TextItem(Markdown(slot.url))>>))
          [] OTHER -> UserMessage(JStr(Markdown(slot.url)))

RECURSIVE FieldPairs(_)
FieldPairs(slots) ==
    IF slots = <<>> THEN <<>>
    ELSE IF Head(slots).pos \in FieldKeys
    THEN <<Pair(Head(slots).pos, UrlStr(Head(slots).url.kind, Head(slots).url.key))>>
         \o FieldPairs(Tail(slots))
    ELSE FieldPairs(Tail(slots))

RECURSIVE Messages(_)
Messages(slots) ==
    IF slots = <<>> THEN <<>>
    ELSE IF Head(slots).pos \in FieldKeys THEN Messages(Tail(slots))
    ELSE <<Message(Head(slots))>> \o Messages(Tail(slots))

Body(slots) ==
    JDict(<<Pair("model", Lit("m")), Pair("messages", JList(Messages(slots)))>>
          \o FieldPairs(slots))

\* bodies of up to MaxSlots image references, no key twice in the dict
Bodies ==
    {slots \in SeqsUpTo(Slots, MaxSlots) \ {<<>>} :
        \A i, j \in DOMAIN slots :
            (i # j /\ slots[i].pos \in FieldKeys) => slots[i].pos # slots[j].pos}

\* no rewrite call was made
NoRewrite == [called |-> FALSE]

\* the gateway after rewriter.rewrite: res.raised = the ValueError reached
\* it (HTTP 400 security_error), otherwise res.val is the body sent upstream;
\* the rows get_local_path committed stay either way
Rewritten(slots, allow_external_fetch, res) ==
    /\ rw' = [called |-> TRUE, slots |-> slots,
              allow_external_fetch |-> allow_external_fetch,
              raised |-> res.raised, loads |-> res.ctx.loads,
              value |-> IF res.raised THEN JNull ELSE res.val]
    /\ images' = res.ctx.images
    /\ disk' = res.ctx.disk
    /\ last' = Other
    /\ UNCHANGED <<stray_bytes, r2, settings, now, nticks, next_id, bg_quota,
                   bg_upload, ppu, saved, evicted, ttl_evicted, stream_vars, call, sweep>>

\* PayloadRewriter.rewrite on the body built from slots, _url_cache cleared
Rewrite(slots, allow_external_fetch, fetch_ok) ==
    Rewritten(slots, allow_external_fetch,
              RewriteValue(Body(slots),
                           [cache |-> {}, loads |-> <<>>, images |-> images, disk |-> disk],
                           [settings |-> settings, bucket |-> r2, transfer_ok |-> TRUE,
                            allow_external_fetch |-> allow_external_fetch,
                            fetch_ok |-> fetch_ok]))

\* _rewrite_dict at a "content" key that holds a string: the value put into
\* the result is what _convert_string_to_structured_content returns
Structured(content, allow_external_fetch, res) ==
    /\ rw' = [called |-> TRUE, content |-> content,
              allow_external_fetch |-> allow_external_fetch,
              raised |-> res.raised, loads |-> res.ctx.loads,
              value |-> IF res.raised THEN JNull ELSE res.val]
    /\ images' = res.ctx.images
    /\ disk' = res.ctx.disk
    /\ last' = Other
    /\ UNCHANGED <<stray_bytes, r2, settings, now, nticks, next_id, bg_quota,
                   bg_upload, ppu, saved, evicted, ttl_evicted, stream_vars, call, sweep>>

ConvertContent(content, allow_external_fetch, fetch_ok) ==
    Structured(content, allow_external_fetch,
               ConvertStringToStructuredContent(content,
                   [cache |-> {}, loads |-> <<>>, images |-> images, disk |-> disk],
                   [settings |-> settings, bucket |-> r2, transfer_ok |-> TRUE,
                    allow_external_fetch |-> allow_external_fetch,
                    fetch_ok |-> fetch_ok]))

\* ------------------------------------------------- non-streaming requests
\* no request is running
NoCall == [path |-> "none"]

\* What one upstream call does: "ok" is a 200 answer with a JSON body;
\* "status" is httpx.HTTPStatusError whose body is not JSON or carries a string
\* at error.message (or no such key); "status_no_text" is httpx.HTTPStatusError
\* whose JSON body carries a value that is not a string at error.message (null,
\* a number); "transport" is httpx.RequestError; "other" is any other exception
\* (a 200 answer whose body is not JSON among them).
Outcomes == {"ok", "status", "status_no_text", "transport", "other"}

\* create_error_response
create_error_response(message, error_type, status_code) ==
    [status |-> status_code, object |-> "error",
     error |-> [message |-> message, type |-> error_type]]

\* the upstream's answer, with the data URLs replaced by gateway URLs
UpstreamResponse == [status |-> 200, object |-> "upstream"]

\* the completion chat_completions builds after the last attempt failed
ErrorCompletion ==
    [status |-> 200, object |-> "chat.completion",
     choices |-> <<[index |-> 0, finish_reason |-> "stop",
                    message |-> [role |-> "assistant",
                                 content |-> "error_content"]]>>]

\* an exception that leaves the handler: the framework answers 500
Unhandled(exception) ==
    [status |-> 500, object |-> "unhandled", exception |-> exception]

Running(path, attempt, outcomes) ==
    [path |-> path, pc |-> "attempt", attempt |-> attempt, outcomes |-> outcomes]

Sleeping(c) == [c EXCEPT !.pc = "sleep"]

Returned(c, outcomes, response) ==
    [path |-> c.path, pc |-> "done", attempt |-> c.attempt,
     outcomes |-> outcomes, response |-> response]

\* the handler is entered with a non-streaming body
CallStart(path) ==
    /\ call = NoCall /\ sweep = NoSweep
    /\ call' = Running(path, 1, <<>>)
    /\ UNCHANGED <<store_vars, stream_vars, rw, sweep>>

\* the images of a 200 answer are stored; a text that does not decode is
\* left in place (ValueError caught), an answer without image stores nothing
StoreAnswer(b64_data) ==
    IF b64_data = <<>> THEN UNCHANGED store_vars
    ELSE SaveImage(b64_data, "image/png")

\* chat_completions, one turn of the retry loop up to its await
\* asyncio.sleep(1), or up to the return
ChatNext(c, outcome, outcomes) ==
    IF outcome = "ok" THEN Returned(c, outcomes, UpstreamResponse)
    ELSE IF outcome = "status_no_text"
    THEN Returned(c, outcomes, Unhandled("TypeError"))
    ELSE IF c.attempt < MaxRetries THEN Sleeping([c EXCEPT !.outcomes = outcomes])
    ELSE Returned(c, outcomes, ErrorCompletion)

ChatAttempt(outcome, b64_data) ==
    /\ call.path = "chat" /\ call.pc = "attempt"
    /\ call' = ChatNext(call, outcome, Append(call.outcomes, outcome))
    /\ IF outcome = "ok" /\ next_id \in ImageIds
       THEN StoreAnswer(b64_data) ELSE UNCHANGED store_vars
    /\ UNCHANGED <<stream_vars, rw, sweep>>

\* asyncio.sleep(1) is over: continue
ChatRetry ==
    /\ call.path = "chat" /\ call.pc = "sleep"
    /\ call' = Running("chat", call.attempt + 1, call.outcomes)
    /\ UNCHANGED <<store_vars, stream_vars, rw, sweep>>

\* create_image and edit_image after the one call of client.generate_image
\* or client.edit_image: stored = an image of the answer was saved
ImageResponse(outcome, stored) ==
    IF outcome = "ok"
    THEN IF stored THEN UpstreamResponse
         ELSE create_error_response("no_images", "generation_error", 500)
    ELSE IF outcome \in {"status", "status_no_text"}
    THEN create_error_response("upstream_status", "upstream_error", 502)
    ELSE IF outcome = "transport"
    THEN create_error_response("connect", "connection_error", 502)
    ELSE create_error_response("internal", "internal_error", 500)

ImageAttempt(outcome, b64_data) ==
    /\ call.path \in {"generation", "edit"} /\ call.pc = "attempt"
    /\ call' = Returned(call, Append(call.outcomes, outcome),
                        ImageResponse(outcome, b64_data # <<>>
                                               /\ DecodeImage(b64_data).ok
                                               /\ next_id \in ImageIds))
    /\ IF outcome = "ok" /\ next_id \in ImageIds
       THEN StoreAnswer(b64_data) ELSE UNCHANGED store_vars
    /\ UNCHANGED <<stream_vars, rw, sweep>>

\* the response has left the gateway
CallReturn ==
    /\ call.path # "none" /\ call.pc = "done"
    /\ call' = NoCall
    /\ UNCHANGED <<store_vars, stream_vars, rw, sweep>>

\* ------------------------------------------------------------ chat answers
\* The string content of an answer is a sequence of parts as well: besides
\* "lit" and "blank", a part is a whole <think>...</think> block ("think"), a
\* markdown image ![alt](url) ("md") or a bare URL ("url"); the URL of either
\* is a data URI ("data", key = its base64 text) or a gateway URL ("local",
\* key = <<id>>).  No base64 text of an answer is the beginning of another.
ThinkBlock == Part("think", "", <<>>)

\* "\n"
Newline == Part("blank", "", <<>>)

\* f"{base}/images/{image_id}"
build_image_url(image_id) == <<Part("url", "local", <<image_id>>)>>

\* re.sub(r'<think>[\s\S]*?</think>\s*', '', content): every block goes, and
\* the white space after it
RECURSIVE DropThink(_, _)
DropThink(parts, after_block) ==
    IF parts = <<>> THEN <<>>
    ELSE IF Head(parts).k = "think" THEN DropThink(Tail(parts), TRUE)
    ELSE IF after_block /\ Head(parts).k = "blank" THEN DropThink(Tail(parts), TRUE)
    ELSE <<Head(parts)>> \o DropThink(Tail(parts), FALSE)

\* _strip_thinking_tags
strip_thinking_tags(content) == Strip(DropThink(content, FALSE))

\* what the saves of one call did so far: the next free id, the images
\* written, the number of saves that raised
NoSaves(next) == [next |-> next, written |-> <<>>, raised |-> 0]

\* image_store.save_from_base64(b64_data) and build_image_url inside one try
SaveAndBuild(b64_data, st) ==
    LET dec == DecodeImage(b64_data)
    IN  IF dec.ok
        THEN [ok |-> TRUE, url |-> build_image_url(st.next),
              st |-> [st EXCEPT !.next = @ + 1,
                                !.written = Append(@, [text |-> b64_data,
                                                       bytes |-> dec.bytes])]]
        ELSE [ok |-> FALSE, url |-> <<>>, st |-> [st EXCEPT !.raised = @ + 1]]

\* re.finditer(md_pattern, new_content)
MdMatches(parts) == SelectSeq(parts, LAMBDA p : p.k = "md" /\ p.kind = "data")

\* re.finditer(base64_pattern, new_content): the data URI of a markdown image
\* matches as well
Base64Matches(parts) ==
    SelectSeq(parts, LAMBDA p : p.k \in {"md", "url"} /\ p.kind = "data")

\* new_content.replace(match.group(0), new_md): every occurrence of the text
ReplaceMarkdown(parts, match, url) ==
    [i \in DOMAIN parts |->
        IF parts[i] = match THEN Part("md", url[1].kind, url[1].key) ELSE parts[i]]

\* new_content.replace(full_match, image_url): every occurrence of the data
\* URI, inside a markdown image too
ReplaceDataUri(parts, match, url) ==
    [i \in DOMAIN parts |->
        IF parts[i].k \in {"md", "url"} /\ parts[i].kind = "data"
           /\ parts[i].key = match.key
        THEN Part(parts[i].k, url[1].kind, url[1].key) ELSE parts[i]]

StringState(new_content, processed, st) ==
    [new_content |-> new_content, processed |-> processed, st |-> st]

\* for match in reversed(md_matches)
RECURSIVE MarkdownLoop(_, _, _)
MarkdownLoop(md_matches, i, s) ==
    IF i = 0 THEN s
    ELSE LET r == SaveAndBuild(md_matches[i].key, s.st)
         IN  MarkdownLoop(md_matches, i - 1,
                 IF r.ok
                 THEN StringState(ReplaceMarkdown(s.new_content, md_matches[i], r.url),
                                  TRUE, r.st)
                 ELSE StringState(s.new_content, s.processed, r.st))

\* for match in reversed(matches)
RECURSIVE Base64Loop(_, _, _)
Base64Loop(matches, i, s) ==
    IF i = 0 THEN s
    ELSE LET r == SaveAndBuild(matches[i].key, s.st)
         IN  Base64Loop(matches, i - 1,
                 IF r.ok
                 THEN StringState(ReplaceDataUri(s.new_content, matches[i], r.url),
                                  s.processed, r.st)
                 ELSE StringState(s.new_content, s.processed, r.st))

Processed(message, st) == [message |-> message, st |-> st]

\* _process_chat_response, content is a string: the message ends with
\* new_content on every path
ProcessString(message, content, st) ==
    LET stripped == strip_thinking_tags(content)
        md_matches == MdMatches(stripped)
        md == MarkdownLoop(md_matches, Len(md_matches),
                           StringState(stripped, FALSE, st))
        matches == Base64Matches(md.new_content)
        bare == IF md.processed THEN md
                ELSE Base64Loop(matches, Len(matches), md)
    IN  Processed(SetKey(message, "content", JStr(bare.new_content)), bare.st)

ArrayState(new_content, modified, st) ==
    [new_content |-> new_content, modified |-> modified, st |-> st]

\* the data URI, or the raw text, of an image item that is_base64_image accepts
Base64Of(value) == value.v[1].key

\* _process_chat_response, one item of a content array
ProcessItem(item, s) ==
    LET kept == ArrayState(Append(s.new_content, item), s.modified, s.st)
        image_data == Get(item, "image")
        url == Get(Get(item, "image_url"), "url")
        data == IF Get(item, "type") = Lit("image") THEN image_data ELSE url
        r == SaveAndBuild(Base64Of(data), s.st)
        done == IF r.ok
                THEN ArrayState(Append(s.new_content, ImageUrlItem(r.url)), TRUE, r.st)
                ELSE ArrayState(Append(s.new_content, item), s.modified, r.st)
    IN  IF item.t # "dict" THEN kept
        ELSE IF Get(item, "type") = Lit("image") /\ image_data.t = "str"
                /\ image_data.v # <<>>
        THEN IF IsBase64Image(image_data.v) THEN done ELSE kept
        ELSE IF Get(item, "type") = Lit("image_url")
        THEN IF url.t = "str" /\ url.v # <<>> /\ url.v[1].k = "url"
                /\ url.v[1].kind = "data"
             THEN done ELSE kept
        ELSE kept

RECURSIVE ArrayLoop(_, _, _)
ArrayLoop(content, i, s) ==
    IF i > Len(content) THEN s
    ELSE ArrayLoop(content, i + 1, ProcessItem(content[i], s))

\* _process_chat_response, content is a list
ProcessArray(message, content, st) ==
    LET s == ArrayLoop(content, 1, ArrayState(<<>>, FALSE, st))
    IN  Processed(IF s.modified THEN SetKey(message, "content", JList(s.new_content))
                  ELSE message, s.st)

\* the url of an entry of the images field: "" when there is none
ImagesUrl(img_item) ==
    LET image_url_obj == Get(img_item, "image_url")
    IN  IF image_url_obj.t = "dict" /\ Get(image_url_obj, "url").t = "str"
        THEN Get(image_url_obj, "url").v
        ELSE IF image_url_obj.t = "str" THEN image_url_obj.v
        ELSE <<>>

IsDataImageUrl(url) == url # <<>> /\ url[1].k = "url" /\ url[1].kind = "data"

\* for img_item in images_field
RECURSIVE ImagesLoop(_, _, _)
ImagesLoop(images_field, i, s) ==
    IF i > Len(images_field) THEN s
    ELSE LET img_item == images_field[i]
             url == ImagesUrl(img_item)
             r == SaveAndBuild(url[1].key, s.st)
         IN  ImagesLoop(images_field, i + 1,
                 IF img_item.t = "dict" /\ IsDataImageUrl(url)
                 THEN IF r.ok
                      THEN ArrayState(Append(s.new_content, ImageUrlItem(r.url)),
                                      TRUE, r.st)
                      ELSE ArrayState(Append(s.new_content, img_item), s.modified, r.st)
                 ELSE ArrayState(Append(s.new_content, img_item), s.modified, s.st))

\* markdown_parts joined with "\n": f"![image]({url})" for every entry of type
\* image_url that has a url
RECURSIVE MarkdownParts(_, _)
MarkdownParts(processed_images, i) ==
    IF i > Len(processed_images) THEN <<>>
    ELSE LET img == processed_images[i]
             url == ImagesUrl(img)
             rest == MarkdownParts(processed_images, i + 1)
         IN  IF img.t = "dict" /\ Get(img, "type") = Lit("image_url") /\ url # <<>>
             THEN <<Part("md", url[1].kind, url[1].key)>>
                  \o (IF rest = <<>> THEN rest ELSE <<Newline>> \o rest)
             ELSE rest

DelKey(d, key) == JDict(SelectSeq(d.v, LAMBDA p : p.key # key))

\* _process_chat_response, one choice's message
ProcessMessage(message, st) ==
    LET content == Get(message, "content")
        images_field == Get(message, "images")
        imgs == IF images_field.t = "list"
                THEN ImagesLoop(images_field.v, 1, ArrayState(<<>>, FALSE, st))
                ELSE ArrayState(<<>>, FALSE, st)
        markdown == MarkdownParts(imgs.new_content, 1)
        cleaned == IF content.t = "str" THEN strip_thinking_tags(content.v) ELSE <<>>
        new_content == IF cleaned # <<>> THEN cleaned \o <<Newline>> \o markdown
                       ELSE markdown
    IN  IF markdown # <<>>
        THEN Processed(DelKey(SetKey(message, "content", JStr(new_content)), "images"),
                       imgs.st)
        ELSE IF content.t = "str" THEN ProcessString(message, content.v, imgs.st)
        ELSE IF content.t = "list" THEN ProcessArray(message, content.v, imgs.st)
        ELSE Processed(message, imgs.st)

\* the rows, files and tasks the saves of one call leave behind
StoreWritten(st) ==
    LET n == Len(st.written)
        new == {next_id + k - 1 : k \in 1..n}
        ext == GetExtension("image/png")
    IN  /\ images' = [id \in ImageIds |->
                         IF id \in new
                         THEN NewImage(ext, "image/png",
                                       st.written[id - next_id + 1].bytes, now)
                         ELSE images[id]]
        /\ disk' = [id \in ImageIds |->
                       IF id \in new
                       THEN [disk[id] EXCEPT
                                ![ext] = File(st.written[id - next_id + 1].bytes)]
                       ELSE disk[id]]
        /\ saved' = [id \in ImageIds |->
                        IF id \in new THEN st.written[id - next_id + 1] ELSE saved[id]]
        /\ next_id' = next_id + n
        /\ bg_upload' = bg_upload \cup {[id |-> id, ext |-> ext] : id \in new}
        /\ bg_quota' = bg_quota + n
        /\ last' = Other
        /\ UNCHANGED <<stray_bytes, r2, settings, now, nticks, ppu, evicted,
                       ttl_evicted>>

\* what chat_completions returns after _process_chat_response returned: the
\* upstream's message as it came and as it leaves, the saves that raised
ProcessedResponse(upstream, res) ==
    [status |-> 200, object |-> "processed", upstream |-> upstream,
     message |-> res.message, raised |-> res.st.raised,
     written |-> Len(res.st.written)]

\* chat_completions, the first upstream call answers 200 with one choice
\* whose message is given: _process_chat_response runs to its return
ChatAnswer(message) ==
    /\ call.path = "chat" /\ call.pc = "attempt" /\ call.attempt = 1
    /\ LET res == ProcessMessage(message, NoSaves(next_id))
       IN  /\ \A k \in 1..Len(res.st.written) : next_id + k - 1 \in ImageIds
           /\ call' = Returned(call, Append(call.outcomes, "ok"),
                               ProcessedResponse(message, res))
           /\ StoreWritten(res.st)
    /\ UNCHANGED <<stream_vars, rw, sweep>>

\* ------------------------------------------------- streaming classification
\* image_keywords, two of the list; no URL of the model holds one
ImageKeywords == {"draw", "edit"}

\* str.lower() on the words of the model
Lower(word) == IF word = "Draw" THEN "draw" ELSE word

\* any(kw in last_content.lower() for kw in image_keywords)
HasImageKeywords(last_content) ==
    \E i \in DOMAIN last_content :
        last_content[i].k = "lit" /\ Lower(last_content[i].kind) \in ImageKeywords

\* " ".join(text_parts): the text of every item of type text
RECURSIVE JoinTexts(_, _)
JoinTexts(items, first) ==
    IF items = <<>> THEN <<>>
    ELSE LET item == Head(items)
         IN  IF item.t = "dict" /\ Get(item, "type") = Lit("text")
             THEN (IF first THEN <<>> ELSE <<Part("blank", "", <<>>)>>)
                  \o (IF HasKey(item, "text") THEN Get(item, "text").v ELSE <<>>)
                  \o JoinTexts(Tail(items), FALSE)
             ELSE JoinTexts(Tail(items), first)

LastContent(last_content_raw) ==
    IF last_content_raw.t = "str" THEN last_content_raw.v
    ELSE IF last_content_raw.t = "list" THEN JoinTexts(last_content_raw.v, TRUE)
    ELSE <<>>

\* re.findall(r'https?://[^\s\)\]\"\'<>]+', text): the URL of a markdown image
\* is found as well
FindUrls(parts) ==
    SelectSeq(parts, LAMBDA p : p.k \in {"url", "md"} /\ p.kind \in {"external", "local"})

StructuredImageTypes == {Lit("image_url"), Lit("image"), Lit("input_image")}

HasStructuredImage(last_content_raw) ==
    /\ last_content_raw.t = "list"
    /\ \E i \in DOMAIN last_content_raw.v :
          /\ last_content_raw.v[i].t = "dict"
          /\ Get(last_content_raw.v[i], "type") \in StructuredImageTypes

\* messages[-1] if messages else {}
LastMessage(messages) == IF messages = <<>> THEN JDict(<<>>) ELSE messages[Len(messages)]

\* message.get("content", "")
ContentOf(message) == IF HasKey(message, "content") THEN Get(message, "content") ELSE JStr(<<>>)

\* _handle_streaming_chat: is_image_request.  The URLs are searched in string
\* content only; those taken from the image items of a list add nothing to
\* has_structured_image.
IsImageRequest(messages) ==
    LET last_content_raw == ContentOf(LastMessage(messages))
        last_content == LastContent(last_content_raw)
        uploaded_image_urls == IF last_content_raw.t = "str"
                               THEN FindUrls(last_content_raw.v) ELSE <<>>
        has_any_url == Len(uploaded_image_urls) > 0
    IN  \/ HasImageKeywords(last_content)
        \/ has_any_url
        \/ HasStructuredImage(last_content_raw)

\* _handle_streaming_chat with the rewritten body's messages: the generator
\* chosen is handed to StreamingResponse
HandleStreamingChat(messages) ==
    /\ mode = "none" /\ gen_pc = "closed"
    /\ mode' = IF IsImageRequest(messages) THEN "interactive" ELSE "passthrough"
    /\ gen_pc' = "start"
    /\ frames' = <<>>
    /\ fetch' = NoFetch
    /\ elapsed_seconds' = 0
    /\ pt' = [attempt |-> 0, pos |-> 0]
    /\ UNCHANGED <<store_vars, rw, call, sweep>>

\* ------------------------------------------- get_base64 beside other workers
\* Inside one process nothing runs between get_local_path's path.exists() and
\* get_base64's read_bytes(); a second worker process on the same IMAGES_DIR
\* and database, or an operator, can remove the file in between.  The call is
\* cut there: `call` holds the path get_local_path returned.

\* local_path.read_bytes(): the bytes, or FileNotFoundError
ReadBytes(dsk, id, ext) ==
    IF FileExists(dsk, id, ext)
    THEN [raised |-> FALSE, bytes |-> dsk[id][ext].data]
    ELSE [raised |-> TRUE, bytes |-> <<>>]

\* get_base64 past the local read that failed: get_by_id again, then the
\* download when the row has an R2 copy and a client can be built
R2Fallback(s, imgs, dsk, bucket, id, transfer_ok) ==
    LET image == imgs[id]
        dl == DownloadImage(bucket, id, transfer_ok)
        ext == GetExtension(IF image.content_type = "" THEN "image/png"
                            ELSE image.content_type)
    IN  IF ~(image.exists /\ image.has_r2_copy) THEN NotFound(imgs, dsk, "none")
        ELSE IF ~CreateR2Client(s) THEN NotFound(imgs, dsk, "no_client")
        ELSE IF Truthy(dl)
        THEN [ok |-> TRUE, data |-> B64Encode(dl.bytes), src |-> "r2",
              images |-> [imgs EXCEPT ![id].has_local_copy = TRUE,
                                      ![id].local_path = ext],
              disk |-> [dsk EXCEPT ![id][ext] = File(dl.bytes)]]
        ELSE NotFound(imgs, dsk, "download_failed")

\* an exception that leaves get_base64
Raised(imgs, dsk, exception) ==
    [ok |-> FALSE, data |-> <<>>, src |-> exception, images |-> imgs, disk |-> dsk]

\* read_bytes not guarded: FileNotFoundError leaves get_base64
ReadFailedRaises(fallback, imgs, dsk) == Raised(imgs, dsk, "FileNotFoundError")

\* the except clause around read_bytes: the error is logged and the call goes
\* on to the R2 fallback
ReadFailed(fallback, imgs, dsk) == fallback

\* get_base64 up to the return of get_local_path with a path
GbCheck(req) ==
    /\ call = NoCall /\ sweep = NoSweep
    /\ req.len = UuidLen /\ req.hyphens = UuidHyphens
    /\ GetLocalPath(images, disk, req.key).found
    /\ call' = [path |-> "get_base64", pc |-> "checked", id |-> req.key,
                local_path |-> images[req.key].local_path]
    /\ UNCHANGED <<store_vars, stream_vars, rw, sweep>>

\* get_base64 from read_bytes to its return
GbRead(transfer_ok) ==
    /\ call.path = "get_base64" /\ call.pc = "checked"
    /\ LET id == call.id
           rd == ReadBytes(disk, id, call.local_path)
           res == IF ~rd.raised
                  THEN [ok |-> TRUE, data |-> B64Encode(rd.bytes), src |-> "local",
                        images |-> images, disk |-> disk]
                  ELSE ReadFailed(R2Fallback(settings, images, disk, r2, id,
                                             transfer_ok), images, disk)
       IN  /\ images' = res.images
           /\ disk' = res.disk
           /\ last' = Result("get_base64", id, res.ok, res.data, res.src)
           /\ call' = [path |-> "get_base64", pc |-> "done", id |-> id,
                       local_path |-> call.local_path, lost |-> rd.raised,
                       archived |-> r2[id],
                       result |-> [ok |-> res.ok, data |-> res.data, src |-> res.src]]
    /\ UNCHANGED <<stray_bytes, r2, settings, now, nticks, next_id, bg_quota,
                   bg_upload, ppu, saved, evicted, ttl_evicted>>
    /\ UNCHANGED <<stream_vars, rw, sweep>>

\* --------------------------------------------- requests with image references
\* the body of a request on path: an edit request carries its prompt
RequestBody(path, slots) ==
    IF path = "edit"
    THEN JDict(Body(slots).v \o <<Pair("prompt", Lit("edit"))>>)
    ELSE Body(slots)

\* not body.get("messages") in chat_completions, not body.get("image") in
\* edit_image
MissingField(path, slots) ==
    IF path = "chat" THEN Messages(slots) = <<>>
    ELSE \A i \in DOMAIN slots : slots[i].pos # "image"

\* the handler returns before its first upstream call
Rejected(path, response) == Returned(Running(path, 0, <<>>), <<>>, response)

\* the ValueError of the rewriter is passed on as if the body were rewritten
AfterRewriteForwards(path, raised) == Running(path, 1, <<>>)

\* chat_completions and edit_image after "await rewriter.rewrite(body)":
\* except ValueError returns the 400 security_error, otherwise the handler
\* goes on to its upstream call
AfterRewrite(path, raised) ==
    IF raised
    THEN Rejected(path, create_error_response("ValueError", "security_error", 400))
    ELSE Running(path, 1, <<>>)

\* chat_completions and edit_image from the settings check to the end of the
\* rewrite: the rewriter is created for this request alone
HandleRequest(path, upstream_configured, slots, allow_external_fetch, fetch_ok) ==
    /\ call = NoCall /\ sweep = NoSweep
    /\ IF ~upstream_configured
       THEN /\ call' = Rejected(path, create_error_response("not_configured",
                                          "configuration_error", 503))
            /\ rw' = NoRewrite
            /\ UNCHANGED store_vars
       ELSE IF MissingField(path, slots)
       THEN /\ call' = Rejected(path, create_error_response("missing_field",
                                          "invalid_request", 400))
            /\ rw' = NoRewrite
            /\ UNCHANGED store_vars
       ELSE LET res == RewriteValue(RequestBody(path, slots),
                           [cache |-> {}, loads |-> <<>>, images |-> images, disk |-> disk],
                           [settings |-> settings, bucket |-> r2, transfer_ok |-> TRUE,
                            allow_external_fetch |-> allow_external_fetch,
                            fetch_ok |-> fetch_ok])
            IN  /\ rw' = [called |-> TRUE, slots |-> slots,
                          allow_external_fetch |-> allow_external_fetch,
                          raised |-> res.raised, loads |-> res.ctx.loads,
                          value |-> IF res.raised THEN JNull ELSE res.val]
                /\ call' = AfterRewrite(path, res.raised)
                /\ images' = res.ctx.images
                /\ disk' = res.ctx.disk
                /\ last' = Other
                /\ UNCHANGED <<stray_bytes, r2, settings, now, nticks, next_id,
                               bg_quota, bg_upload, ppu, saved, evicted, ttl_evicted>>
    /\ UNCHANGED <<stream_vars, sweep>>

\* the response has left the gateway and the rewriter of the request with it
RequestReturn ==
    /\ call.path # "none" /\ call.pc = "done"
    /\ call' = NoCall
    /\ rw' = NoRewrite
    /\ UNCHANGED <<store_vars, stream_vars, sweep>>

\* --------------------------------------------------- overlapping upload calls
\* POST /admin/api/uploads/process while another call of
\* process_pending_uploads is at one of its awaits: the call has its own
\* session, and the rows of its query are the ones it goes through, whatever
\* was committed to them since.
UploadsCall(p) ==
    IF p.pc = "idle" THEN NoCall
    ELSE [path |-> "uploads", pc |-> "uploading", queue |-> p.queue,
          cur |-> p.cur, bytes |-> p.bytes]

\* process_pending_uploads up to the return of its query; without an R2
\* client the call returns at once and has changed nothing
UploadsQuery ==
    /\ call = NoCall
    /\ CreateR2Client(settings)
    /\ call' = [path |-> "uploads", pc |-> "queried", queue |-> PendingQuery(images),
                cur |-> 0, bytes |-> <<>>]
    /\ UNCHANGED <<store_vars, stream_vars, rw, sweep>>

\* process_pending_uploads from its query to the first awaited upload
UploadsRun ==
    /\ call.path = "uploads" /\ call.pc = "queried"
    /\ LET run == PpuRun(images, disk, call.queue)
       IN  /\ images' = run.images
           /\ call' = UploadsCall(run.ppu)
    /\ last' = Other
    /\ UNCHANGED <<disk, stray_bytes, r2, settings, now, nticks, next_id,
                   bg_quota, bg_upload, ppu, saved, evicted, ttl_evicted>>
    /\ UNCHANGED <<stream_vars, rw, sweep>>

\* process_pending_uploads, from the return of an upload to the next await
UploadsUploadDone(success) ==
    /\ call.path = "uploads" /\ call.pc = "uploading"
    /\ LET run == PpuRun(PpuSettle(images, call.cur, success), disk, call.queue)
       IN  /\ images' = run.images
           /\ call' = UploadsCall(run.ppu)
    /\ r2' = IF success THEN [r2 EXCEPT ![call.cur] = File(call.bytes)] ELSE r2
    /\ last' = Other
    /\ UNCHANGED <<disk, stray_bytes, settings, now, nticks, next_id, bg_quota,
                   bg_upload, ppu, saved, evicted, ttl_evicted>>
    /\ UNCHANGED <<stream_vars, rw, sweep>>

\* ------------------------------------------------- the payload after a rewrite
\* The objects of the payload are dicts and lists the caller still holds.  A
\* call leaves, beside what it returns (val), the object it was given as it
\* stands after the call (arg).
Left(one, arg) ==
    [raised |-> one.raised, val |-> one.val, arg |-> arg, ctx |-> one.ctx]

\* new_item = item: a second name for the object of the payload
SameObject(item) == [shared |-> TRUE, obj |-> item]

\* copy.deepcopy(item): a new object equal to item, no part of it shared
deepcopy(item) == [shared |-> FALSE, obj |-> item]

\* item once the assignments to new_item have left new_item at val: they
\* reach item when new_item is the same object
AfterAssignments(item, new_item, val) == IF new_item.shared THEN val ELSE item

\* the items _rewrite_content_array has a branch for
TypedItem(item) ==
    /\ item.t = "dict"
    /\ Get(item, "type") \in {Lit("image_url"), Lit("input_image"), Lit("image"),
                              Lit("text")}

RECURSIVE ValueLeft(_, _, _)
RECURSIVE PairsLeft(_, _, _, _, _, _)
RECURSIVE ItemsLeft(_, _, _, _, _, _)
RECURSIVE ContentItemsLeft(_, _, _, _, _, _)

\* a typed item: result.append(item), or new_item = deepcopy(item), the
\* assignments to new_item and result.append(new_item)
TypedItemLeft(item, one) ==
    IF one.val # item THEN Left(one, AfterAssignments(item, deepcopy(item), one.val))
    ELSE Left(one, item)

\* _rewrite_content_array on one item that is not None
ContentItemLeft(item, ctx, env) ==
    IF TypedItem(item) THEN TypedItemLeft(item, RewriteContentItem(item, ctx, env))
    ELSE IF item.t = "dict" THEN ValueLeft(item, ctx, env)
    ELSE Left(RewriteContentItem(item, ctx, env), item)

\* the items after position i, which the call has not come to
Rest(lst, i) == SubSeq(lst, i + 1, Len(lst))

ContentItemsLeftNext(content, i, result, args, one, env) ==
    IF one.raised THEN Left(one, JList(Append(args, one.arg) \o Rest(content, i)))
    ELSE ContentItemsLeft(content, i + 1, Append(result, one.val),
                          Append(args, one.arg), one.ctx, env)

\* PayloadRewriter._rewrite_content_array, from item i on: result is a new
\* list, args are the items gone through
ContentItemsLeft(content, i, result, args, ctx, env) ==
    IF i > Len(content) THEN Left(Out(FALSE, JList(result), ctx), JList(args))
    ELSE IF content[i].t = "null"
    THEN ContentItemsLeft(content, i + 1, result, Append(args, content[i]), ctx, env)
    ELSE ContentItemsLeftNext(content, i, result, args,
                              ContentItemLeft(content[i], ctx, env), env)

ItemsLeftNext(lst, i, result, args, one, env) ==
    IF one.raised THEN Left(one, JList(Append(args, one.arg) \o Rest(lst, i)))
    ELSE ItemsLeft(lst, i + 1, Append(result, one.val), Append(args, one.arg),
                   one.ctx, env)

\* PayloadRewriter._rewrite_list, from item i on: the comprehension builds a
\* new list
ItemsLeft(lst, i, result, args, ctx, env) ==
    IF i > Len(lst) THEN Left(Out(FALSE, JList(result), ctx), JList(args))
    ELSE ItemsLeftNext(lst, i, result, args, ValueLeft(lst[i], ctx, env), env)

\* _rewrite_dict on one key and its value: a string and None cannot change,
\* a list or a dict is gone through
PairLeft(key, value, ctx, env) ==
    IF key = "content" /\ value.t = "list"
    THEN ContentItemsLeft(value.v, 1, <<>>, <<>>, ctx, env)
    ELSE IF key = "tool_calls" /\ value.t = "list"
    THEN ItemsLeft(value.v, 1, <<>>, <<>>, ctx, env)
    ELSE IF key \in {"image", "init_image", "mask", "content"}
            \/ (key = "arguments" /\ value.t = "str")
    THEN Left(RewritePair(key, value, ctx, env), value)
    ELSE ValueLeft(value, ctx, env)

PairsLeftNext(d, i, result, args, one, env) ==
    IF one.raised
    THEN Left(one, JDict(Append(args, Pair(d[i].key, one.arg)) \o Rest(d, i)))
    ELSE PairsLeft(d, i + 1, Append(result, Pair(d[i].key, one.val)),
                   Append(args, Pair(d[i].key, one.arg)), one.ctx, env)

\* PayloadRewriter._rewrite_dict, from pair i on: result = {} is a new dict
PairsLeft(d, i, result, args, ctx, env) ==
    IF i > Len(d) THEN Left(Out(FALSE, JDict(result), ctx), JDict(args))
    ELSE PairsLeftNext(d, i, result, args,
                       PairLeft(d[i].key, d[i].val, ctx, env), env)

\* PayloadRewriter._rewrite_value
ValueLeft(value, ctx, env) ==
    IF value.t = "dict" THEN PairsLeft(value.v, 1, <<>>, <<>>, ctx, env)
    ELSE IF value.t = "list" THEN ItemsLeft(value.v, 1, <<>>, <<>>, ctx, env)
    ELSE Left(Out(FALSE, value, ctx), value)

\* the caller after rewriter.rewrite(payload): what came back, or that the
\* ValueError did, and the payload it still holds
RewrittenPayload(slots, allow_external_fetch, res) ==
    /\ rw' = [called |-> TRUE, slots |-> slots,
              allow_external_fetch |-> allow_external_fetch,
              raised |-> res.raised, loads |-> res.ctx.loads,
              value |-> IF res.raised THEN JNull ELSE res.val,
              payload |-> res.arg]
    /\ images' = res.ctx.images
    /\ disk' = res.ctx.disk
    /\ last' = Other
    /\ UNCHANGED <<stray_bytes, r2, settings, now, nticks, next_id, bg_quota,
                   bg_upload, ppu, saved, evicted, ttl_evicted, stream_vars, call, sweep>>

\* PayloadRewriter.rewrite on the body built from slots, _url_cache cleared
RewritePayload(slots, allow_external_fetch, fetch_ok) ==
    RewrittenPayload(slots, allow_external_fetch,
        ValueLeft(Body(slots),
                  [cache |-> {}, loads |-> <<>>, images |-> images, disk |-> disk],
                  [settings |-> settings, bucket |-> r2, transfer_ok |-> TRUE,
                   allow_external_fetch |-> allow_external_fetch,
                   fetch_ok |-> fetch_ok]))

\* ---------------------------------------------------------------- settings

\* The columns of the settings row the store reads, as an update names them.
\* r2_configured stands for the four R2 columns filled in, or emptied,
\* together.
SettingsFields == DOMAIN [r2_configured |-> FALSE,
                          local_cache_ttl_hours |-> 0,
                          metadata_retention_days |-> 0,
                          max_local_cache_mb |-> 0,
                          delete_r2_on_metadata_expire |-> FALSE]

\* update_settings, allowed_fields: the columns setattr is applied to
allowed_fields ==
    {"r2_configured", "local_cache_ttl_hours", "metadata_retention_days",
     "delete_r2_on_metadata_expire"}

\* update_settings: every allowed field the update carries is set, every
\* other key of the update is passed over
UpdatedRow(row, updates) ==
    [f \in DOMAIN row |->
        IF f \in allowed_fields /\ f \in DOMAIN updates THEN updates[f]
        ELSE row[f]]

\* POST /admin/api/settings: save_settings drops the fields left at None and
\* hands the rest to update_settings, which commits the row
UpdateSettings(updates) ==
    /\ settings' = UpdatedRow(settings, updates)
    /\ last' = Other
    /\ UNCHANGED <<images, disk, stray_bytes, r2, now, nticks, next_id,
                   bg_quota, bg_upload, ppu, saved, evicted, ttl_evicted>>
    /\ UNCHANGED chat_vars

\* ---------------------------------------------------------- specifications
\* One image followed through its whole life: saved, read, uploaded, aged,
\* evicted, restored, forgotten.  No cache quota is configured.
LifeSettings ==
    {s \in SettingsChoices : s.max_local_cache_mb = 0 /\ s.delete_r2_on_metadata_expire}

LifeInputs == {B64Encode(<<>>), B64Encode(<<255>>)}

Init == InitStore({1}, LifeSettings, {0}) /\ StreamIdle /\ rw = NoRewrite /\ call = NoCall /\ sweep = NoSweep

Next ==
    \/ \E dt \in TickHours : Tick(dt)
    \/ \E text \in LifeInputs : SaveFromBase64(text, "image/png")
    \/ \E task \in bg_upload : AutoUploadToR2(task)
    \/ CheckCacheSizeLimit
    \/ \E id \in ImageIds : LocalFileLost(id)
    \/ \E req \in RequestIds, ok \in BOOLEAN : GetBase64(req, ok)
    \/ \E id \in ImageIds, ok \in BOOLEAN : GetImage(id, ok)
    \/ CleanupExpiredLocal
    \/ \E ok \in BOOLEAN : CleanupExpiredMetadata(ok)
    \/ \E ok \in BOOLEAN : TriggerCleanup(ok)
    \/ ProcessPendingUploads
    \/ \E ok \in BOOLEAN : PpuUploadDone(ok)
    \/ RetryFailedUploads

Spec == Init /\ [][Next]_vars

\* Saving and reading back one image: every text of SaveInputs under both
\* content types, with the cache quota off, on and under the limit, and on
\* and over it.  The archive is not configured.
CodecSettings ==
    {s \in SettingsChoices : /\ ~s.r2_configured
                             /\ s.local_cache_ttl_hours = 0
                             /\ ~s.delete_r2_on_metadata_expire}

InitCodec == InitStore({1}, CodecSettings, {0, BytesPerMB}) /\ StreamIdle /\ rw = NoRewrite /\ call = NoCall /\ sweep = NoSweep

NextCodec ==
    \/ \E text \in SaveInputs, ct \in ContentTypes : SaveFromBase64(text, ct)
    \/ \E task \in bg_upload : AutoUploadToR2(task)
    \/ CheckCacheSizeLimit
    \/ \E id \in ImageIds : LocalFileLost(id)
    \/ \E req \in RequestIds, ok \in BOOLEAN : GetBase64(req, ok)
    \/ \E id \in ImageIds, ok \in BOOLEAN : GetImage(id, ok)

SpecCodec == InitCodec /\ [][NextCodec]_vars

\* Several images ageing in the local cache under a configured or default
\* TTL, read through GET /images/{id}, and swept by cleanup_expired_local.
CleanupSettings ==
    {s \in SettingsChoices : /\ ~s.r2_configured
                             /\ s.max_local_cache_mb = 0
                             /\ ~s.delete_r2_on_metadata_expire}

CleanupTicks == {1, DefaultTTLHours}

InitCleanup == InitStore(1..MaxImages, CleanupSettings, {0}) /\ StreamIdle /\ rw = NoRewrite /\ call = NoCall /\ sweep = NoSweep

NextCleanup ==
    \/ \E dt \in CleanupTicks : Tick(dt)
    \/ SaveFromBase64(B64Encode(<<255>>), "image/png")
    \/ \E id \in ImageIds : LocalFileLost(id)
    \/ \E id \in ImageIds : GetImage(id, TRUE)
    \/ CleanupExpiredLocal

SpecCleanup == InitCleanup /\ [][NextCleanup]_vars

\* Several images uploaded by process_pending_uploads while the TTL sweep
\* runs between its awaits.  The archive is configured, the TTL is one hour.
UploadSettings ==
    {s \in SettingsChoices : /\ s.r2_configured
                             /\ s.local_cache_ttl_hours = 1
                             /\ s.max_local_cache_mb = 0
                             /\ ~s.delete_r2_on_metadata_expire}

InitUpload == InitStore(1..MaxImages, UploadSettings, {0}) /\ StreamIdle /\ rw = NoRewrite /\ call = NoCall /\ sweep = NoSweep

NextUpload ==
    \/ Tick(DefaultTTLHours)
    \/ SaveFromBase64(B64Encode(<<255>>), "image/png")
    \/ \E task \in bg_upload : AutoUploadToR2(task)
    \/ CleanupExpiredLocal
    \/ ProcessPendingUploads
    \/ \E ok \in BOOLEAN : PpuUploadDone(ok)
    \/ RetryFailedUploads

SpecUpload == InitUpload /\ [][NextUpload]_vars

\* Images of one and two blocks saved into a directory that holds other files
\* as well, with the quota off or at one megabyte, and the quota pass that
\* each save schedules.  The archive is not configured.
QuotaSettings ==
    {s \in SettingsChoices : /\ ~s.r2_configured
                             /\ s.local_cache_ttl_hours = 0
                             /\ ~s.delete_r2_on_metadata_expire}

QuotaStrays == {0, 5 * BlockBytes, 6 * BlockBytes}

QuotaInputs == {B64Encode(<<255>>), B64Encode(<<255, 0>>)}

InitQuota == InitStore(1..(MaxImages + 1), QuotaSettings, QuotaStrays) /\ StreamIdle /\ rw = NoRewrite /\ call = NoCall /\ sweep = NoSweep

NextQuota ==
    \/ Tick(1)
    \/ \E text \in QuotaInputs : SaveFromBase64(text, "image/png")
    \/ \E id \in ImageIds : LocalFileLost(id)
    \/ CheckCacheSizeLimit

SpecQuota == InitQuota /\ [][NextQuota]_vars

\* Images saved while the archive is configured and accepts every upload,
\* with the tasks each save schedules and nothing an administrator starts.
\* A task created with asyncio.create_task runs once the event loop gets to
\* it: both kinds of task are weakly fair.  main.lifespan starts no task of
\* its own.
ArchiveSettings ==
    {s \in SettingsChoices : /\ s.r2_configured
                             /\ s.local_cache_ttl_hours = 0
                             /\ ~s.delete_r2_on_metadata_expire}

ArchiveInputs == {B64Encode(<<255>>), B64Encode(<<255, 0>>), DataScheme}

InitArchive == InitStore(1..MaxImages, ArchiveSettings, {0, BytesPerMB}) /\ StreamIdle /\ rw = NoRewrite /\ call = NoCall /\ sweep = NoSweep

NextArchive ==
    \/ \E text \in ArchiveInputs, ct \in ContentTypes : SaveFromBase64(text, ct)
    \/ \E task \in bg_upload : AutoUploadToR2(task)
    \/ CheckCacheSizeLimit

SpecArchive ==
    /\ InitArchive /\ [][NextArchive]_vars
    /\ WF_vars(\E task \in bg_upload : AutoUploadToR2(task))
    /\ WF_vars(CheckCacheSizeLimit)

\* One archived image whose local copy is swept by cleanup_expired_local,
\* split at its await, while reads fall back to the archive and a second
\* cleanup call runs.  No file is removed from outside.
InitRace == InitStore({1}, UploadSettings, {0}) /\ StreamIdle /\ rw = NoRewrite /\ call = NoCall /\ sweep = NoSweep

NextRace ==
    \/ Tick(DefaultTTLHours)
    \/ \E ct \in ContentTypes : SaveFromBase64(B64Encode(<<255>>), ct)
    \/ ProcessPendingUploads
    \/ \E ok \in BOOLEAN : PpuUploadDone(ok)
    \/ CleanupLocalQuery
    \/ CleanupLocalSweep
    \/ CleanupExpiredLocal
    \/ \E id \in ImageIds, ok \in BOOLEAN : GetImage(id, ok)
    \/ \E req \in RequestIds, ok \in BOOLEAN : GetBase64(req, ok)

SpecRace == InitRace /\ [][NextRace]_vars

\* One image through every handler that writes image rows: saves, reads,
\* the TTL sweep, the quota pass, the upload pass and its retry, the metadata
\* pass, and the administrator's deletes.
RecordsSettings ==
    {s \in SettingsChoices : /\ s.r2_configured
                             /\ s.local_cache_ttl_hours = 1
                             /\ s.max_local_cache_mb = 1
                             /\ s.delete_r2_on_metadata_expire}

RecordsTicks == {DefaultTTLHours, DefaultRetentionDays * HoursPerDay}

InitRecords == InitStore({1}, RecordsSettings, {BytesPerMB}) /\ StreamIdle /\ rw = NoRewrite /\ call = NoCall /\ sweep = NoSweep

NextRecords ==
    \/ \E dt \in RecordsTicks : Tick(dt)
    \/ SaveFromBase64(B64Encode(<<255>>), "image/png")
    \/ \E task \in bg_upload : AutoUploadToR2(task)
    \/ CheckCacheSizeLimit
    \/ \E req \in RequestIds : GetBase64(req, TRUE)
    \/ \E id \in ImageIds : GetImage(id, TRUE)
    \/ CleanupExpiredLocal
    \/ \E ok \in BOOLEAN : CleanupExpiredMetadata(ok)
    \/ \E ok \in BOOLEAN : TriggerCleanup(ok)
    \/ ProcessPendingUploads
    \/ \E ok \in BOOLEAN : PpuUploadDone(ok)
    \/ RetryFailedUploads
    \/ \E id \in ImageIds : DeleteImage(id)
    \/ \E ids \in SUBSET ImageIds, delete_type \in DeleteTypes :
           BatchDeleteImages(ids, delete_type)

SpecRecords == InitRecords /\ [][NextRecords]_vars

\* Saves of every text of SaveInputs under both content types, each of which
\* may fail at its disk write, and the tasks the successful ones schedule.
InitSave == InitStore(1..MaxImages, QuotaSettings, {0}) /\ StreamIdle /\ rw = NoRewrite /\ call = NoCall /\ sweep = NoSweep

NextSave ==
    \/ \E text \in SaveInputs, ct \in ContentTypes : SaveFromBase64(text, ct)
    \/ \E text \in SaveInputs, ct \in ContentTypes : SaveWriteFails(text, ct)
    \/ \E task \in bg_upload : AutoUploadToR2(task)
    \/ CheckCacheSizeLimit

SpecSave == InitSave /\ [][NextSave]_vars

\* One non-streaming request at a time on the chat, generation and edit
\* paths, with every outcome of each upstream attempt, an answer that carries
\* no image, a valid one or an undecodable one, and the background tasks the
\* saves schedule.
CallPaths == {"chat", "generation", "edit"}

CallInputs == {<<>>, B64Encode(<<255>>), <<PadChar>>}

InitCall == InitStore(1..MaxImages, QuotaSettings, {0}) /\ StreamIdle /\ rw = NoRewrite /\ call = NoCall /\ sweep = NoSweep

NextCall ==
    \/ \E path \in CallPaths : CallStart(path)
    \/ \E outcome \in Outcomes, text \in CallInputs : ChatAttempt(outcome, text)
    \/ ChatRetry
    \/ \E outcome \in Outcomes, text \in CallInputs : ImageAttempt(outcome, text)
    \/ CallReturn
    \/ \E task \in bg_upload : AutoUploadToR2(task)
    \/ CheckCacheSizeLimit

SpecCall == InitCall /\ [][NextCall]_vars

\* One streaming chat completion, interactive or passed through, with every
\* outcome of the upstream attempts.
InitStream ==
    /\ InitStore({1}, {s \in LifeSettings : ~s.r2_configured /\ s.local_cache_ttl_hours = 0}, {0})
    /\ InitStreaming
    /\ rw = NoRewrite /\ call = NoCall /\ sweep = NoSweep

NextStream ==
    \/ IStart
    \/ IAfterWelcome
    \/ IWake
    \/ IAfterHeartbeat
    \/ IAfterProcess
    \/ YieldFinish
    \/ YieldDone
    \/ Return
    \/ \E ok \in BOOLEAN : FetchReturn(ok)
    \/ FetchRaise
    \/ FetchRetry
    \/ PStart
    \/ PLine
    \/ PEnd
    \/ PFail
    \/ PRaise

SpecStream == InitStream /\ [][NextStream]_vars

\* The same request on a running event loop: a generator that can go on is
\* resumed (the client keeps reading), and every upstream attempt finishes,
\* by an answer, an error or the client's timeout.
SpecStreamLive == SpecStream /\ WF_vars(NextStream)

\* One request body rewritten after one image was saved or its file lost, with
\* external fetching allowed or not.  Neither the archive nor the cache quota
\* is configured.
InitRewrite ==
    /\ InitStore({1}, {s \in CodecSettings : s.max_local_cache_mb = 0}, {0})
    /\ StreamIdle
    /\ rw = NoRewrite /\ call = NoCall /\ sweep = NoSweep

NextRewrite ==
    \/ \E text \in LifeInputs : SaveFromBase64(text, "image/png")
    \/ \E id \in ImageIds : LocalFileLost(id)
    \/ /\ ~rw.called
       /\ \E slots \in Bodies, allow \in BOOLEAN, ok \in BOOLEAN : Rewrite(slots, allow, ok)

SpecRewrite == InitRewrite /\ [][NextRewrite]_vars

\* One string content of up to MaxParts words, blanks and markdown images
\* (of a gateway image, a data URL, an external image) converted after one
\* image was saved or its file lost.
ContentParts ==
    {Part("lit", "see", <<>>), Part("blank", "", <<>>)}
    \cup {Part("md", u.kind, u.key) : u \in Urls}

Contents == SeqsUpTo(ContentParts, MaxParts)

NextStructure ==
    \/ \E text \in LifeInputs : SaveFromBase64(text, "image/png")
    \/ \E id \in ImageIds : LocalFileLost(id)
    \/ /\ ~rw.called
       /\ \E content \in Contents, allow \in BOOLEAN, ok \in BOOLEAN :
              ConvertContent(content, allow, ok)

SpecStructure == InitRewrite /\ [][NextStructure]_vars

\* One upstream answer after another goes through _process_chat_response:
\* string content of up to MaxParts parts, array content of up to two items,
\* with and without an images field.  Every image_url is a dict, as the
\* providers send it.
AnswerKeys == {B64Encode(<<255>>), <<19>>}

AnswerParts ==
    {Part("lit", "see", <<>>), Newline, ThinkBlock}
    \cup {Part(k, "data", key) : k \in {"md", "url"}, key \in AnswerKeys}

AnswerItems ==
    {TextItem(<<Part("lit", "see", <<>>)>>),
     ImageUrlItem(<<Part("url", "external", <<>>)>>)}
    \cup {ImageUrlItem(<<Part("url", "data", key)>>) : key \in AnswerKeys}
    \cup {JDict(<<Pair("type", Lit("image")),
                  Pair("image", UrlStr("data", key))>>) : key \in AnswerKeys}

AnswerContents ==
    {JNull} \cup {JStr(parts) : parts \in SeqsUpTo(AnswerParts, MaxParts)}
            \cup {JList(items) : items \in SeqsUpTo(AnswerItems, MaxSlots)}

\* the entries of an images field: typed and untyped dicts, a bare string
ImagesEntries ==
    {ImageUrlItem(<<Part("url", "external", <<>>)>>)}
    \cup {ImageUrlItem(<<Part("url", "data", key)>>) : key \in AnswerKeys}
    \cup {JDict(<<Pair("image_url", JDict(<<Pair("url", UrlStr("data", key))>>))>>) :
             key \in AnswerKeys}
    \cup {UrlStr("data", key) : key \in AnswerKeys}

AssistantMessage(content, images_field) ==
    JDict(<<Pair("role", Lit("assistant")), Pair("content", content)>>
          \o (IF images_field = <<>> THEN <<>>
              ELSE <<Pair("images", JList(images_field))>>))

Answers ==
    {AssistantMessage(content, images_field) :
        content \in AnswerContents,
        images_field \in {<<>>} \cup {<<e>> : e \in ImagesEntries}}

InitAnswer ==
    /\ InitStore(1..MaxParts, QuotaSettings, {0})
    /\ StreamIdle /\ rw = NoRewrite /\ call = NoCall /\ sweep = NoSweep

NextAnswer ==
    \/ CallStart("chat")
    \/ \E message \in Answers : ChatAnswer(message)
    \/ CallReturn

SpecAnswer == InitAnswer /\ [][NextAnswer]_vars

\* One streaming chat request from its classification to the end of its
\* stream.  The final message has string content of up to MaxParts parts
\* (words, a keyword in either case, white space, a URL, a data URI), list
\* content of up to MaxSlots items, no content, or there is no message.
ChatWords ==
    {Part("lit", "see", <<>>), Part("lit", "Draw", <<>>), Part("blank", "", <<>>),
     Part("url", "external", <<>>), Part("url", "data", B64Encode(<<255>>))}

ChatItems ==
    {TextItem(<<w>>) : w \in ChatWords \ {Part("blank", "", <<>>)}}
    \cup {ImageUrlItem(<<Part("url", "external", <<>>)>>),
          JDict(<<Pair("type", Lit("image")), Pair("image", UrlStr("data", B64Encode(<<255>>)))>>),
          JDict(<<Pair("type", Lit("input_image")),
                  Pair("input_image", UrlStr("external", <<>>))>>),
          JDict(<<Pair("type", Lit("file"))>>),
          Lit("see")}

ChatContents ==
    {JNull} \cup {JStr(parts) : parts \in SeqsUpTo(ChatWords, MaxParts)}
            \cup {JList(items) : items \in SeqsUpTo(ChatItems, MaxSlots)}

\* the messages of a body: none, one, or one after a message with a keyword
ChatMessages ==
    {<<>>}
    \cup {<<UserMessage(c)>> : c \in ChatContents}
    \cup {<<UserMessage(Lit("Draw")), UserMessage(c)>> : c \in ChatContents}
    \cup {<<JDict(<<Pair("role", Lit("user"))>>)>>}

InitClassify ==
    /\ InitStore({1}, {s \in LifeSettings : ~s.r2_configured /\ s.local_cache_ttl_hours = 0}, {0})
    /\ StreamIdle
    /\ rw = NoRewrite /\ call = NoCall /\ sweep = NoSweep

NextClassify ==
    \/ \E messages \in ChatMessages : HandleStreamingChat(messages)
    \/ NextStream

SpecClassify == InitClassify /\ [][NextClassify]_vars

\* One image read by get_base64 while a second worker saves, uploads and
\* evicts on the same directory and database.
ReadRaceSettings ==
    {s \in SettingsChoices : /\ s.local_cache_ttl_hours = 1
                             /\ s.max_local_cache_mb = 1
                             /\ ~s.delete_r2_on_metadata_expire}

InitReadRace ==
    /\ InitStore({1}, ReadRaceSettings, {BytesPerMB})
    /\ StreamIdle /\ rw = NoRewrite /\ call = NoCall /\ sweep = NoSweep

NextReadRace ==
    \/ Tick(DefaultTTLHours)
    \/ SaveFromBase64(B64Encode(<<255>>), "image/png")
    \/ \E task \in bg_upload : AutoUploadToR2(task)
    \/ CheckCacheSizeLimit
    \/ CleanupExpiredLocal
    \/ \E id \in ImageIds : LocalFileLost(id)
    \/ ProcessPendingUploads
    \/ \E ok \in BOOLEAN : PpuUploadDone(ok)
    \/ \E req \in RequestIds : GbCheck(req)
    \/ \E ok \in BOOLEAN : GbRead(ok)
    \/ CallReturn

SpecReadRace == InitReadRace /\ [][NextReadRace]_vars

\* The gateway running on its own: main.lifespan calls init_db and creates no
\* task, so cleanup.background_cleanup_task and cleanup.background_upload_task
\* never run; what the event loop is left with are the two tasks every save
\* creates.  No admin endpoint is called.
SchedulerSettings ==
    {s \in SettingsChoices : /\ s.r2_configured
                             /\ s.local_cache_ttl_hours = 1
                             /\ ~s.delete_r2_on_metadata_expire}

InitScheduler ==
    /\ InitStore(1..MaxImages, SchedulerSettings, {0, BytesPerMB})
    /\ StreamIdle /\ rw = NoRewrite /\ call = NoCall /\ sweep = NoSweep

NextScheduler ==
    \/ Tick(DefaultTTLHours)
    \/ \E text \in ArchiveInputs, ct \in ContentTypes : SaveFromBase64(text, ct)
    \/ \E task \in bg_upload : AutoUploadToR2(task)
    \/ CheckCacheSizeLimit

\* every task the event loop holds is run
SpecScheduler ==
    /\ InitScheduler /\ [][NextScheduler]_vars
    /\ WF_vars(\E task \in bg_upload : AutoUploadToR2(task))
    /\ WF_vars(CheckCacheSizeLimit)

\* The settings row as get_settings creates it (every column at its default,
\* the TTL and the retention counted in the defaults the passes fall back
\* to), the administrator's updates, and saves with the tasks they schedule.
DefaultRow ==
    [r2_configured |-> FALSE,
     local_cache_ttl_hours |-> DefaultTTLHours,
     metadata_retention_days |-> DefaultRetentionDays,
     max_local_cache_mb |-> 0,
     delete_r2_on_metadata_expire |-> FALSE]

Sent(field, values) == {<<>>} \cup {field :> v : v \in values}

SettingsUpdates ==
    {a @@ b @@ c @@ d :
        a \in Sent("r2_configured", BOOLEAN),
        b \in Sent("local_cache_ttl_hours", {1}),
        c \in Sent("max_local_cache_mb", {0, 1}),
        d \in Sent("delete_r2_on_metadata_expire", BOOLEAN)}

InitSettings == InitStore(1..MaxImages, {DefaultRow}, {0, 6 * BlockBytes}) /\ StreamIdle /\ rw = NoRewrite /\ call = NoCall /\ sweep = NoSweep

NextSettings ==
    \/ \E updates \in SettingsUpdates : UpdateSettings(updates)
    \/ \E text \in QuotaInputs : SaveFromBase64(text, "image/png")
    \/ \E task \in bg_upload : AutoUploadToR2(task)
    \/ CheckCacheSizeLimit

SpecSettings == InitSettings /\ [][NextSettings]_vars

\* Chat and edit requests whose bodies carry image references, from the
\* settings check to the response, after an image was saved or not; the
\* upstream answers or cannot be reached.  Neither the archive nor the cache
\* quota is configured.
RequestPaths == {"chat", "edit"}

RequestOutcomes == {"ok", "transport"}

\* one image reference, or the image of an edit and a second reference
RequestBodies == {slots \in Bodies : Len(slots) = 1 \/ slots[1].pos = "image"}

InitRequest ==
    /\ InitStore({1}, {s \in CodecSettings : s.max_local_cache_mb = 0}, {0})
    /\ StreamIdle
    /\ rw = NoRewrite /\ call = NoCall /\ sweep = NoSweep

NextRequest ==
    \/ SaveFromBase64(B64Encode(<<255>>), "image/png")
    \/ \E path \in RequestPaths, configured \in BOOLEAN, slots \in RequestBodies,
          allow \in BOOLEAN, ok \in BOOLEAN :
            HandleRequest(path, configured, slots, allow, ok)
    \/ \E outcome \in RequestOutcomes : ChatAttempt(outcome, <<>>)
    \/ ChatRetry
    \/ \E outcome \in RequestOutcomes : ImageAttempt(outcome, <<>>)
    \/ RequestReturn

SpecRequest == InitRequest /\ [][NextRequest]_vars

\* One image saved, uploaded by process_pending_uploads and by a second call
\* of it that overlaps the first, retried, read and evicted after its TTL.
InitOverlap == InitStore({1}, UploadSettings, {0}) /\ StreamIdle /\ rw = NoRewrite /\ call = NoCall /\ sweep = NoSweep

NextOverlap ==
    \/ Tick(DefaultTTLHours)
    \/ SaveFromBase64(B64Encode(<<255>>), "image/png")
    \/ \E task \in bg_upload : AutoUploadToR2(task)
    \/ CheckCacheSizeLimit
    \/ CleanupExpiredLocal
    \/ \E id \in ImageIds : GetImage(id, TRUE)
    \/ ProcessPendingUploads
    \/ \E ok \in BOOLEAN : PpuUploadDone(ok)
    \/ RetryFailedUploads
    \/ UploadsQuery
    \/ UploadsRun
    \/ \E ok \in BOOLEAN : UploadsUploadDone(ok)

SpecOverlap == InitOverlap /\ [][NextOverlap]_vars

\* One request body rewritten while its sender keeps the payload, after one
\* image was saved or its file lost, with external fetching allowed or not.
InitPayload ==
    /\ InitStore({1}, {s \in CodecSettings : s.max_local_cache_mb = 0}, {0})
    /\ StreamIdle
    /\ rw = NoRewrite /\ call = NoCall /\ sweep = NoSweep

NextPayload ==
    \/ \E text \in LifeInputs : SaveFromBase64(text, "image/png")
    \/ \E id \in ImageIds : LocalFileLost(id)
    \/ /\ ~rw.called
       /\ \E slots \in Bodies, allow \in BOOLEAN, ok \in BOOLEAN :
             RewritePayload(slots, allow, ok)

SpecPayload == InitPayload /\ [][NextPayload]_vars

\* ------------------------------------------------------------------ claims
\* the body of the last rewrite call holds an external image URL
HoldsExternalUrl == \E k \in DOMAIN rw.slots : rw.slots[k].url.kind = "external"

\* C1: with allow_external_fetch = false, rewriting a body that holds an
\* external image URL in any recognised position (an image / init_image / mask
\* key, an image_url / input_image / image item of a content array, a markdown
\* image in content text) fails the whole call with the security error and
\* returns no rewritten body.
C1_SecurityGate ==
    (rw.called /\ ~rw.allow_external_fetch /\ HoldsExternalUrl)
        => rw.raised /\ rw.value = JNull

\* a request for the image a drawn uuid names
ValidRequest(req) == req.len = UuidLen /\ req.hyphens = UuidHyphens

Count(seq, x) == Cardinality({k \in DOMAIN seq : seq[k] = x})

\* C2: every streaming chat response, interactive or passthrough, ends with
\* exactly one frame carrying a finish_reason followed by exactly one data:
\* [DONE], and nothing after it.
C2_StreamTermination ==
    (mode # "none" /\ gen_pc = "closed") =>
        /\ Count(frames, "finish") = 1
        /\ Count(frames, "done") = 1
        /\ Len(frames) >= 2
        /\ frames[Len(frames)] = "done"
        /\ frames[Len(frames) - 1] = "finish"

\* C3: in an interactive stream no heartbeat frame is emitted once the
\* upstream task has completed.
C3_NoHeartbeatAfterFetchDone ==
    [][FetchDone =>
          ~(Len(frames') > Len(frames) /\ frames'[Len(frames')] = "heartbeat")]_vars

C3_Witness ==
    /\ mode = "interactive"
    /\ gen_pc = "closed"
    /\ FetchDone
    /\ elapsed_seconds = 2 * SleepSeconds
    /\ Count(frames, "heartbeat") = 1

\* C4: after a full cleanup cycle (cleanup_expired_local, then
\* cleanup_expired_metadata) no row is left with has_local_copy = false and
\* has_r2_copy = false.
C4_NoOrphanAfterCycle ==
    last.op = "trigger_cleanup" =>
        \A i \in ImageIds :
            images[i].exists => images[i].has_local_copy \/ images[i].has_r2_copy

AllowedMoves ==
    {<<"pending", "uploading">>, <<"uploading", "uploaded">>,
     <<"uploading", "failed">>, <<"failed", "pending">>}

\* C5: every change of a row's upload_status is pending -> uploading,
\* uploading -> uploaded, uploading -> failed (with upload_error recorded) or
\* failed -> pending.
C5_UploadStateMachine ==
    [][\A i \in ImageIds :
          (/\ images[i].exists
           /\ images'[i].exists
           /\ images'[i].upload_status # images[i].upload_status)
          => /\ <<images[i].upload_status, images'[i].upload_status>> \in AllowedMoves
             /\ (images'[i].upload_status = "failed" => images'[i].upload_error # "")]_vars

\* C6: after save_from_base64 of the base64 encoding of a byte string b, with
\* or without the data URL prefix, and before any eviction of the image,
\* get_base64 of its id returns the base64 encoding of exactly b.
C6_RoundTrip ==
    \A i \in ImageIds, b \in ByteStrings :
        (/\ last.op = "get_base64"
         /\ last.id = i
         /\ i < next_id
         /\ saved[i].text \in {B64Encode(b), DataPrefix \o B64Encode(b)}
         /\ i \notin evicted)
        => last.ok /\ last.data = B64Encode(b)

C6_Witness ==
    /\ last.op = "get_base64"
    /\ last.id = 1
    /\ 1 \notin evicted
    /\ saved[1].text = DataPrefix \o B64Encode(<<255, 0>>)
    /\ last.data = B64Encode(<<255, 0>>)

\* C7: for a row with has_local_copy = false and has_r2_copy = true whose
\* archive download succeeds, get_base64 returns the archived bytes, leaves
\* has_local_copy = true and the local file present, and the next get_base64
\* is served from the local file.
C7_FallbackHeals ==
    [][\A req \in RequestIds :
          (/\ ValidRequest(req)
           /\ images[req.key].exists
           /\ ~images[req.key].has_local_copy
           /\ images[req.key].has_r2_copy
           /\ CreateR2Client(settings)
           /\ r2[req.key].present
           /\ GetBase64(req, TRUE))
          => /\ last'.ok
             /\ last'.data = B64Encode(r2[req.key].data)
             /\ images'[req.key].has_local_copy
             /\ FileExists(disk', req.key, images'[req.key].local_path)
             /\ GetBase64Call(settings, images', disk', r2, req, FALSE).src = "local"]_vars

\* C8: for a row whose local copy cleanup_expired_local removed, a later
\* get_base64 returns the bytes originally saved and leaves has_local_copy =
\* true.
C8_TtlEvictionReversible ==
    [][\A req \in RequestIds :
          (/\ ValidRequest(req)
           /\ req.key \in ttl_evicted
           /\ GetBase64(req, TRUE))
          => /\ last'.ok
             /\ last'.data = B64Encode(saved[req.key].bytes)
             /\ images'[req.key].has_local_copy]_vars

\* C9: one cleanup_expired_local pass removes the file and clears
\* has_local_copy of every row with has_local_copy = true whose
\* last_accessed_at is more than the TTL (72 hours when unset) old, completes
\* when such a file is already missing, and leaves the row and files of every
\* other row unchanged.
C9_CleanupExpiredLocal ==
    [][CleanupExpiredLocal =>
          LET ttl == IF settings.local_cache_ttl_hours = 0 THEN 72
                     ELSE settings.local_cache_ttl_hours
          IN  \A i \in ImageIds :
                  IF /\ images[i].exists
                     /\ images[i].has_local_copy
                     /\ now - images[i].last_accessed_at > ttl
                  THEN /\ ~images'[i].has_local_copy
                       /\ ~FileExists(disk', i, images[i].local_path)
                       /\ images'[i] = [images[i] EXCEPT !.has_local_copy = FALSE]
                  ELSE images'[i] = images[i] /\ disk'[i] = disk[i]]_vars

C9_Witness ==
    /\ last.op = "cleanup_expired_local"
    /\ settings.local_cache_ttl_hours = 0
    /\ \E i, j \in ImageIds :
          /\ i \in ttl_evicted
          /\ ~images[i].has_local_copy
          /\ now - images[i].last_accessed_at > 72
          /\ images[j].has_local_copy
          /\ FileExists(disk, j, images[j].local_path)
          /\ now - images[j].last_accessed_at = 72

\* C10: every successful read, through get_base64 or through GET
\* /images/{id}, sets the row's last_accessed_at to the time of the read.
C10_ReadsRefreshAccessTime ==
    [][/\ \A req \in RequestIds, ok \in BOOLEAN :
             (GetBase64(req, ok) /\ last'.ok)
             => images'[req.key].last_accessed_at = now
       /\ \A id \in ImageIds, ok \in BOOLEAN :
             (GetImage(id, ok) /\ last'.ok)
             => images'[id].last_accessed_at = now]_vars

\* the records whose local file a step removes
Gone == {i \in ImageIds : /\ images[i].exists
                          /\ FileExists(disk, i, images[i].local_path)
                          /\ ~FileExists(disk', i, images[i].local_path)}

\* record j comes no earlier than record i in ascending created_at order
NotBefore(j, i) ==
    \/ images[j].created_at > images[i].created_at
    \/ images[j].created_at = images[i].created_at /\ j >= i

\* the directory's usage just before the step removes the file of record i
UsageBefore(i) ==
    DirBytes(disk', stray_bytes)
        + SumOver({j \in Gone : NotBefore(j, i)},
                  [j \in ImageIds |-> FileSize(disk, j, images[j].local_path)])

\* C11: with max_local_cache_mb > 0 and the directory over the limit, the
\* quota pass removes local files in ascending created_at order and clears
\* has_local_copy on each: no record is evicted while an older record keeps
\* its local copy, none is evicted once usage is at most 90% of the limit, and
\* the pass ends with usage at most 90% of the limit or with no record's local
\* file left; with max_local_cache_mb = 0, or under the limit, nothing is
\* evicted.
C11_QuotaEvictionOrder ==
    [][bg_quota' < bg_quota =>
        LET max_mb == settings.max_local_cache_mb
            over == max_mb > 0 /\ DirBytes(disk, stray_bytes) > max_mb * BytesPerMB
        IN  /\ ~over => Gone = {} /\ images' = images
            /\ over =>
                /\ \A i \in Gone : ~images'[i].has_local_copy
                /\ \A i \in Gone, j \in ImageIds :
                      (/\ images[j].exists
                       /\ images[j].has_local_copy
                       /\ images[j].created_at < images[i].created_at)
                      => /\ ~images'[j].has_local_copy
                         /\ ~FileExists(disk', j, images[j].local_path)
                /\ \A i \in Gone : UsageBefore(i) * 10 > max_mb * 9 * BytesPerMB
                /\ \/ DirBytes(disk', stray_bytes) * 10 <= max_mb * 9 * BytesPerMB
                   \/ \A i \in ImageIds :
                         images[i].exists => ~FileExists(disk', i, images[i].local_path)
    ]_vars

\* the pass evicted the oldest image and stopped: a newer one keeps its file
C11_Witness ==
    /\ settings.max_local_cache_mb = 1
    /\ bg_quota = 0
    /\ 1 \in evicted
    /\ ~images[1].has_local_copy
    /\ images[2].has_local_copy
    /\ FileExists(disk, 2, images[2].local_path)
    /\ images[1].created_at < images[2].created_at
    /\ DirBytes(disk, stray_bytes) * 10 <= 9 * BytesPerMB

Failures(outcomes) == {k \in 1..Len(outcomes) : outcomes[k] # "ok"}

\* C12: a non-streaming chat request makes at most 3 upstream attempts, each
\* one after the first only after the previous one failed; it returns the
\* answer of the first successful attempt, and after 3 failed attempts a chat
\* completion with exactly one choice, role assistant, the failure report as
\* content; the upstream error never reaches the client as an error response.
C12_ChatRetry ==
    (call.path = "chat" /\ call.pc = "done") =>
        LET n == Len(call.outcomes) IN
        /\ n = call.attempt /\ n <= MaxRetries
        /\ 1..(n - 1) \subseteq Failures(call.outcomes)
        /\ call.outcomes[n] = "ok" => call.response = UpstreamResponse
        /\ call.outcomes[n] # "ok" =>
              /\ n = MaxRetries
              /\ call.response.status = 200
              /\ call.response.object = "chat.completion"
              /\ Len(call.response.choices) = 1
              /\ call.response.choices[1].message.role = "assistant"
              /\ call.response.choices[1].message.content = "error_content"

\* C14: on the generation and edit paths an upstream status error or transport
\* failure is answered with HTTP 502 and an {error: {message, type}} body, and
\* only after 3 attempts.
C14_ImageRetry ==
    (call.path \in {"generation", "edit"} /\ call.pc = "done"
        /\ call.outcomes[Len(call.outcomes)] \in {"status", "status_no_text", "transport"}) =>
        /\ call.response.status = 502
        /\ call.response.object = "error"
        /\ DOMAIN call.response.error = {"message", "type"}
        /\ Len(call.outcomes) = MaxRetries

\* C13: a passed-through stream makes at most 3 attempts, and a new attempt
\* starts only when the previous one failed before any of its lines was
\* forwarded, so the client never receives lines of more than one attempt.
C13_PassthroughRetry ==
    [][(mode = "passthrough" /\ pt'.attempt > pt.attempt) =>
           /\ pt'.attempt <= MaxRetries
           /\ pt.pos = 0]_vars

\* C15: when the background upload a save scheduled fails, the save has still
\* returned the record, and the record is left with upload_status = "failed",
\* where retry_failed_uploads finds it.
C15_FailedAutoUploadMarked ==
    [][/\ \A task \in bg_upload' \ bg_upload :
              last'.ok /\ images'[task.id].exists
       /\ \A task \in bg_upload \ bg_upload' :
              AutoUploadOutcome(settings, disk, task.id, task.ext) = "AttributeError"
                  => /\ images'[task.id].exists
                     /\ images'[task.id].upload_status = "failed"]_vars

\* C16: with the archive configured and accepting uploads, every saved image
\* eventually has has_r2_copy = TRUE and upload_status = "uploaded", through
\* the upload its save scheduled and with no upload an administrator starts.
C16_EventuallyArchived ==
    \A id \in 1..MaxImages :
        [](images[id].exists =>
              <>(images[id].has_r2_copy /\ images[id].upload_status = "uploaded"))

C18_NoLostFlagUpdate ==
    (sweep.pc = "idle" /\ ppu.pc = "idle") =>
        \A i \in ImageIds :
            images[i].exists =>
                (images[i].has_local_copy <=> FileExists(disk, i, images[i].local_path))

\* has_local_copy is set on row i and its file is not there
FileMissing(imgs, dsk, i) ==
    imgs[i].exists /\ imgs[i].has_local_copy /\ ~FileExists(dsk, i, imgs[i].local_path)

\* the step is an operation that comes across row i's file: the background
\* upload of i, a quota pass over the limit whose oldest row is i, or a read
\* of i through get_base64 or GET /images/{id}
ObservedBy(i) ==
    \/ \E task \in bg_upload \ bg_upload' : task.id = i /\ CreateR2Client(settings)
    \/ /\ bg_quota' < bg_quota
       /\ DirBytes(disk, stray_bytes) > settings.max_local_cache_mb * BytesPerMB
       /\ settings.max_local_cache_mb > 0
       /\ \A j \in ImageIds : (images[j].exists /\ images[j].has_local_copy) => NotBefore(j, i)
    \/ /\ last' # last
       /\ last'.op \in {"get_base64", "get_image"}
       /\ last'.id = i

\* C19: an operation that finds has_local_copy = true on a row whose file is
\* missing (get_local_path, GET /images/{id}, the quota pass, the background
\* upload) leaves the flag cleared and committed when it returns.
C19_MissingFileClearsFlag ==
    [][\A i \in ImageIds :
           (FileMissing(images, disk, i) /\ ObservedBy(i))
               => ~FileMissing(images', disk', i)]_vars

\* C20: GET /images/{id} answers 404 when the id is unknown or the image can
\* be obtained neither locally nor from the archive, a failed archive
\* download included; otherwise it serves the stored bytes, from the local
\* file or from the archive.
C20_GetImageStatus ==
    last.op = "get_image" =>
        /\ last.ok \/ last.src = "404"
        /\ last.ok => /\ last.src \in {"local", "r2"}
                      /\ last.data = saved[last.id].bytes
        /\ (~last.ok /\ images[last.id].exists) =>
               /\ ~FileExists(disk, last.id, images[last.id].local_path)
               /\ ~(images[last.id].has_r2_copy /\ r2[last.id].present
                    /\ CreateR2Client(settings))

\* the row of image i is deleted by this step
Removed(i) == images[i].exists /\ ~images'[i].exists

\* C21: an image row is removed only by cleanup_expired_metadata (alone or as
\* the second half of the administrator's cleanup) or by an administrator's
\* delete; no save, read, TTL sweep, quota pass, upload pass or upload retry
\* removes one; and a row the metadata pass removes had has_local_copy = false
\* and a created_at older than the retention period when the pass read it.
C21_RecordRemoval ==
    [][\A i \in ImageIds : Removed(i) =>
          \/ DeleteImage(i)
          \/ \E ids \in SUBSET ImageIds : i \in ids /\ BatchDeleteImages(ids, "all")
          \/ /\ \E ok \in BOOLEAN : CleanupExpiredMetadata(ok)
             /\ ~images[i].has_local_copy
             /\ images[i].created_at < now - RetentionHours(settings)
          \/ /\ \E ok \in BOOLEAN : TriggerCleanup(ok)
             /\ \/ ~images[i].has_local_copy
                \/ images[i].last_accessed_at < now - TtlHours(settings)
             /\ images[i].created_at < now - RetentionHours(settings)]_vars

C21_Witness ==
    /\ last.op = "cleanup_expired_metadata" /\ last.src = "deleted"
    /\ \E i \in ImageIds : ~images[i].exists /\ saved[i].text # <<>> /\ i \in evicted

\* C22: provided every upstream attempt finishes, an interactive stream
\* eventually emits [DONE], after at most 3 upstream attempts.
C22_InteractiveTermination ==
    (mode = "interactive") ~> (Count(frames, "done") = 1 /\ fetch.attempt <= MaxRetries)

\* the rows cleanup_expired_local selects in the current state
TtlSelected ==
    {i \in ImageIds : /\ images[i].exists
                      /\ images[i].has_local_copy
                      /\ images[i].last_accessed_at < now - TtlHours(settings)}

\* C23: a cleanup_expired_local call changes, on a row it evicts, nothing but
\* has_local_copy (and the local file): has_r2_copy, upload_status,
\* upload_error, created_at, last_accessed_at and every other column stay;
\* no row is deleted; rows it does not select, their files and the archive
\* are untouched.
C23_TtlSweepFrame ==
    [][CleanupExpiredLocal =>
          /\ \A i \in ImageIds :
                IF i \in TtlSelected
                THEN images'[i] = [images[i] EXCEPT !.has_local_copy = FALSE]
                ELSE images'[i] = images[i] /\ disk'[i] = disk[i]
          /\ r2' = r2]_vars

C23_Witness ==
    /\ last.op = "cleanup_expired_local"
    /\ \E i, j \in ImageIds :
          /\ i \in ttl_evicted
          /\ images[i].exists /\ ~images[i].has_local_copy
          /\ images[i].has_r2_copy /\ images[i].upload_status = "uploaded"
          /\ images[i].last_accessed_at < now - TtlHours(settings)
          /\ j # i /\ images[j].exists /\ images[j].has_local_copy

\* this step is a save_from_base64 call that raises
SaveRaises ==
    /\ \E text \in SaveInputs, ct \in ContentTypes :
          SaveFromBase64(text, ct) \/ SaveWriteFails(text, ct)
    /\ ~last'.ok

\* C24: a save_from_base64 call that fails to decode its text or fails to
\* write the file commits no image row and schedules no background task; a
\* row comes into being only with its file on disk, holding the decoded
\* bytes, and with has_local_copy = true, has_r2_copy = false and
\* upload_status = pending.
C24_SaveAllOrNothing ==
    [][/\ SaveRaises => /\ images' = images
                        /\ bg_upload' = bg_upload
                        /\ bg_quota' = bg_quota
       /\ \A i \in ImageIds :
             (~images[i].exists /\ images'[i].exists) =>
                 /\ FileExists(disk', i, images'[i].local_path)
                 /\ disk'[i][images'[i].local_path].data = saved'[i].bytes
                 /\ images'[i].has_local_copy
                 /\ ~images'[i].has_r2_copy
                 /\ images'[i].upload_status = "pending"]_vars

C24_Witness ==
    /\ last.op = "save_from_base64" /\ ~last.ok /\ last.src = "OSError"
    /\ stray_bytes > 0
    /\ \E i \in ImageIds : images[i].exists /\ saved[i].bytes # <<>>
    /\ bg_upload # {}

\* the rows a pass has taken up in this step: the row whose upload it awaits,
\* the rows still on its list, and the rows it wrote
TakenUp ==
    {i \in ImageIds : \/ ppu'.pc = "uploading" /\ ppu'.cur = i
                      \/ \E k \in DOMAIN ppu'.queue : ppu'.queue[k].id = i
                      \/ images'[i] # images[i]}

IsPrefix(p, w) == Len(p) <= Len(w) /\ SubSeq(w, 1, Len(p)) = p

\* what a complete interactive stream looks like: the welcome, heartbeats,
\* then the success notice and one result, or one error; the finish frame
\* and [DONE]
InteractiveStreams ==
    {<<"welcome">> \o [k \in 1..n |-> "heartbeat"] \o rest :
        n \in 0..MaxHeartbeats,
        rest \in {<<"process", "final", "finish", "done">>,
                  <<"error", "finish", "done">>}}

HasMarkdownImage(parts) == \E i \in DOMAIN parts : parts[i].k = "md"

\* a text with each markdown image reduced to the place it holds
Skeleton(parts) ==
    [i \in DOMAIN parts |-> IF parts[i].k = "md" THEN Part("image", "", <<>>)
                            ELSE parts[i]]

\* the segments of a structured content laid end to end: the text of each
\* text segment, and one place for each image_url segment
RECURSIVE Flatten(_)
Flatten(items) ==
    IF items = <<>> THEN <<>>
    ELSE (IF Get(Head(items), "type") = Lit("text")
          THEN Skeleton(Get(Head(items), "text").v)
          ELSE <<Part("image", "", <<>>)>>) \o Flatten(Tail(items))

\* C29: converting a string content that holds at least one markdown image
\* yields a list of text and image_url segments in which the images and the
\* text around them stand in their original order, the text segments together
\* being exactly the text outside the images; a string without markdown image
\* comes back unchanged, as a string.
C29_StructuredContentKeepsText ==
    (rw.called /\ ~rw.raised) =>
        IF HasMarkdownImage(rw.content)
        THEN /\ rw.value.t = "list"
             /\ \A i \in DOMAIN rw.value.v :
                   Get(rw.value.v[i], "type") \in {Lit("text"), Lit("image_url")}
             /\ Flatten(rw.value.v) = Skeleton(rw.content)
        ELSE rw.value = JStr(rw.content)

\* the base64 image data a message carries: a data URI in string content, in
\* an image or image_url item of array content, in an entry of images
DataPart(p) == p.k \in {"md", "url"} /\ p.kind = "data"

CarriesBase64(message) ==
    LET content == Get(message, "content")
        images_field == Get(message, "images")
    IN  \/ content.t = "str" /\ \E i \in DOMAIN content.v : DataPart(content.v[i])
        \/ /\ content.t = "list"
           /\ \E i \in DOMAIN content.v :
                 \/ IsDataImageUrl(ImagesUrl(content.v[i]))
                 \/ /\ Get(content.v[i], "image").t = "str"
                    /\ IsDataImageUrl(Get(content.v[i], "image").v)
        \/ /\ images_field.t = "list"
           /\ \E i \in DOMAIN images_field.v :
                 \/ IsDataImageUrl(ImagesUrl(images_field.v[i]))
                 \/ /\ images_field.v[i].t = "str"
                    /\ IsDataImageUrl(images_field.v[i].v)

AnswerProcessed == call.path = "chat" /\ call.pc = "done"
                   /\ call.response.object = "processed"

\* C27: after _process_chat_response returned with every image save
\* succeeding, the message carries no base64 image data (no data URI in string
\* content, in an image or image_url item of array content, in an entry of
\* images) and has no images field any more.
C27_NoBase64Left ==
    (AnswerProcessed /\ call.response.raised = 0)
        => /\ ~CarriesBase64(call.response.message)
           /\ ~HasKey(call.response.message, "images")

\* content without the <think>...</think> block it begins with
DropLeadingThink(parts) ==
    IF parts # <<>> /\ Head(parts).k = "think" THEN Tail(parts) ELSE parts

\* result is content with some of its data URIs replaced by gateway URLs
OnlySpansSubstituted(content, result) ==
    /\ Len(result) = Len(content)
    /\ \A i \in DOMAIN content :
          \/ result[i] = content[i]
          \/ /\ DataPart(content[i])
             /\ result[i].k = content[i].k
             /\ result[i].kind = "local"

StringRewritten ==
    /\ AnswerProcessed
    /\ ~HasKey(call.response.upstream, "images")
    /\ Get(call.response.upstream, "content").t = "str"
    /\ call.response.written > 0

\* C28: when _process_chat_response rewrote string content, the result is the
\* original content without a leading <think>...</think> block, every part of
\* it unchanged and in its place (white space at both ends included) except
\* the image spans that became stored URLs.
C28_SurroundingTextPreserved ==
    StringRewritten
        => /\ Get(call.response.message, "content").t = "str"
           /\ OnlySpansSubstituted(
                  DropLeadingThink(Get(call.response.upstream, "content").v),
                  Get(call.response.message, "content").v)

\* the text of a message: its string content, or the text items of its list
ClaimedUrl(content) ==
    \/ content.t = "str" /\ FindUrls(content.v) # <<>>
    \/ /\ content.t = "list"
       /\ \E i \in DOMAIN content.v :
             /\ content.v[i].t = "dict"
             /\ Get(content.v[i], "type") = Lit("text")
             /\ FindUrls(Get(content.v[i], "text").v) # <<>>

ClaimedInteractive(messages) ==
    LET content == ContentOf(LastMessage(messages))
    IN  \/ HasImageKeywords(LastContent(content))
        \/ ClaimedUrl(content)
        \/ HasStructuredImage(content)

\* C30: a streaming chat request is handled in interactive mode if and only if
\* the text of its final message holds a listed keyword, or the message holds
\* an http(s) URL in its string content or in a text item of its list content,
\* or it has an image_url, image or input_image item; otherwise it is handled
\* in passthrough mode.
C30_InteractiveIffImageBearing ==
    [][\A messages \in ChatMessages :
          HandleStreamingChat(messages)
              => mode' = IF ClaimedInteractive(messages) THEN "interactive"
                         ELSE "passthrough"]_vars

\* C31: when delete_r2_on_metadata_expire is set, a record with has_r2_copy
\* that cleanup_expired_metadata deletes has no object in the archive any more
\* once the pass is over.
C31_RemoteDeletedWithRecord ==
    [][\A i \in ImageIds :
          (/\ \E ok \in BOOLEAN : CleanupExpiredMetadata(ok) \/ TriggerCleanup(ok)
           /\ settings.delete_r2_on_metadata_expire
           /\ images[i].exists /\ images[i].has_r2_copy
           /\ ~images'[i].exists)
              => ~r2'[i].present]_vars

ReadAfterLoss == call.path = "get_base64" /\ call.pc = "done" /\ call.lost

\* C32: when the local file went away between get_local_path's existence
\* check and the read, get_base64 raises nothing: it returns the archive
\* copy's base64 text, or None (not found).
C32_ReadToleratesLostFile ==
    ReadAfterLoss
        => /\ call.result.src \in {"r2", "none", "no_client", "download_failed"}
           /\ call.result.ok <=> call.result.src = "r2"
           /\ call.result.ok => /\ call.archived.present
                                /\ call.result.data = B64Encode(call.archived.data)

C32_Witness == ReadAfterLoss /\ call.result.ok

\* every part of every string inside a JSON value
RECURSIVE PartsIn(_)
PartsIn(value) ==
    IF value.t = "str" THEN {value.v[i] : i \in DOMAIN value.v}
    ELSE IF value.t = "list" THEN UNION {PartsIn(value.v[i]) : i \in DOMAIN value.v}
    ELSE IF value.t = "dict" THEN UNION {PartsIn(value.v[i].val) : i \in DOMAIN value.v}
    ELSE {}

\* the rewrite met gateway URLs only, and the store could load none of them
OnlyLostLocal ==
    /\ rw.called
    /\ \A i \in DOMAIN rw.slots : rw.slots[i].url.kind = "local"
    /\ rw.loads # <<>>
    /\ \A j \in DOMAIN rw.loads : ~rw.loads[j].ok

\* what an external server sent is in the body
HoldsFetchedData(value) == \E p \in PartsIn(value) : p.key = ExternalData

\* C38: resolving a gateway URL (/images/{uuid}) whose image the store cannot
\* load never goes on to the external path: no security error is raised when
\* external fetching is off, and nothing is fetched from outside when it is on.
C38_LocalNeverExternal ==
    OnlyLostLocal => ~rw.raised /\ ~HoldsFetchedData(rw.value)

\* the image reference a slot puts into the body
SlotRef(slot) ==
    Part(IF slot.pos \in {"text_item", "content"} THEN "md" ELSE "url",
         slot.url.kind, slot.url.key)

\* the field, or the message, that holds the reference of slot i
SlotValue(slots, i, body) ==
    IF slots[i].pos \in FieldKeys THEN Get(body, slots[i].pos)
    ELSE Get(body, "messages").v[
             Cardinality({j \in 1..i : slots[j].pos \notin FieldKeys})]

\* the store cannot load the image a gateway URL names
LoadFails(slot) ==
    LET loaded == LoadLocalImage(slot.url.key,
                                 [images |-> images, disk |-> disk],
                                 [settings |-> settings, bucket |-> r2,
                                  transfer_ok |-> TRUE])
    IN  ~(loaded.ok /\ loaded.data # <<>>)

\* the resolution of a slot's URL comes back with nothing / with a text, given
\* what the external server does
Unresolved(slot, fetch_ok) ==
    /\ ~fetch_ok
    /\ \/ slot.url.kind = "external"
       \/ slot.url.kind = "local" /\ LoadFails(slot)

Resolved(slot, fetch_ok) ==
    \/ slot.url.kind = "external" /\ fetch_ok
    \/ slot.url.kind = "local" /\ (fetch_ok \/ ~LoadFails(slot))

IsUrlPart(p) == p.k \in {"url", "md"} /\ p.kind \in {"external", "local"}

IsBase64Part(p) == p.k \in {"url", "md"} /\ p.kind \in {"data", "b64"}

C34_SchedulerProcesses ==
    \A id \in 1..MaxImages :
        /\ (id \in ExpiredLocal(settings, images, now))
               ~> ~(images[id].exists /\ images[id].has_local_copy)
        /\ (images[id].exists /\ images[id].has_local_copy
                /\ images[id].upload_status \in {"pending", "failed"})
               ~> ~(images[id].exists /\ images[id].has_local_copy
                        /\ images[id].upload_status \in {"pending", "failed"})

\* C36: a settings update that carries max_local_cache_mb changes the stored
\* value, the one _check_cache_size_limit reads as its limit after the next
\* save.
C36_CacheLimitUpdated ==
    [][\A updates \in SettingsUpdates :
          (/\ "max_local_cache_mb" \in DOMAIN updates
           /\ UpdateSettings(updates))
              => settings'.max_local_cache_mb = updates.max_local_cache_mb]_vars

\* C35: when rewriter.rewrite raises the security error in chat_completions
\* or in edit_image, the handler answers 400 with the error type
\* security_error, and it has made no upstream call and no retry.
SecurityErrorRaised ==
    /\ call.path \in {"chat", "edit"}
    /\ rw.called /\ rw.raised

C35_SecurityErrorIs400 ==
    SecurityErrorRaised =>
        /\ call.pc = "done"
        /\ call.response.status = 400
        /\ call.response.object = "error"
        /\ call.response.error.type = "security_error"
        /\ call.outcomes = <<>>
        /\ call.attempt = 0

C35_Witness ==
    /\ SecurityErrorRaised
    /\ call.path = "edit"
    /\ ~rw.allow_external_fetch
    /\ call.pc = "done"

\* C37: in every state reached through saves, the upload task of a save,
\* process_pending_uploads, retry_failed_uploads, reads and evictions, a row
\* has has_r2_copy = true exactly when its upload_status is "uploaded", and a
\* row with upload_status = "uploaded" has an empty upload_error.
C37_ArchivedIffUploaded ==
    \A i \in ImageIds :
        images[i].exists =>
            /\ images[i].has_r2_copy <=> images[i].upload_status = "uploaded"
            /\ images[i].upload_status = "uploaded" => images[i].upload_error = ""

\* C39: every image _process_chat_response stored has its URL in the content
\* it returns, one stored image for one replaced base64 span, also when the
\* same data URI occurs more than once in one message.
AnswerStored ==
    /\ call.path = "chat" /\ call.pc = "done"
    /\ call.response.object = "processed"
    /\ call.response.written > 0

StoredIds == (next_id - call.response.written)..(next_id - 1)

UrlReturned(id) ==
    \E p \in PartsIn(call.response.message) : p.kind = "local" /\ p.key = <<id>>

C39_NoOrphanRecords == AnswerStored => \A id \in StoredIds : UrlReturned(id)

\* C40: PayloadRewriter.rewrite never changes the payload passed to it: after
\* the call, whether it returned a rewritten payload or raised, the payload
\* the caller holds is what it was before the call.
C40_PayloadUnchanged == rw.called => rw.payload = Body(rw.slots)

\* an item of a content array was converted through its deep copy, and a
\* later image field raised the ValueError
C40_Witness ==
    /\ rw.called /\ rw.raised
    /\ \E j \in DOMAIN rw.loads : rw.loads[j].ok
    /\ \E i \in DOMAIN rw.slots :
          /\ rw.slots[i].pos \in {"image_url", "input_image", "image_item", "text_item"}
          /\ rw.slots[i].url.kind = "local"
    /\ rw.payload = Body(rw.slots)

====
